---- MODULE Spec2Model ----
(***************************************************************************)
(* A model of bmfont_rs: the FontBuilder assembler, the binary TLV codec   *)
(* and the tagged-attribute text codec.                                    *)
(*                                                                         *)
(* Strings are sequences of byte values.  Option<T> is a sequence of       *)
(* length 0 (None) or 1 (Some).  crate::Result<T> is a record              *)
(* [err, val] where err.kind = "Ok" on success.                            *)
(***************************************************************************)
EXTENDS Integers, Sequences, FiniteSets, TLC

VARIABLES settings, builder, ret, call, binb, bret, src_font, encoded, ta, pc

vars == <<settings, builder, ret, call, binb, bret, src_font, encoded, ta, pc>>

(***************************************************************************)
(* Bounds of the model.                                                    *)
(***************************************************************************)
MaxPages == 2
MaxChars == 1
MaxKernings == 1
MaxCount == 1

(***************************************************************************)
(* Option and Result.                                                      *)
(***************************************************************************)
None == <<>>
Some(v) == <<v>>
is_some(o) == Len(o) = 1
is_none(o) == Len(o) = 0

\* crate::Error: kind is the variant, line its line: Option<usize>, detail
\* its entity, key, tag or path and the cause of a Parse error.
\* entity is the String the variant carries (entity, key, tag), as bytes.
NoError ==
    [kind |-> "Ok", entity |-> <<>>, detail |-> "", line |-> None,
     specified |-> 0, realized |-> 0]
ErrorEntity(kind, entity, detail, line) ==
    [kind |-> kind, entity |-> entity, detail |-> detail, line |-> line,
     specified |-> 0, realized |-> 0]
ErrorAt(kind, detail, line) == ErrorEntity(kind, <<>>, detail, line)
Error(kind) == ErrorAt(kind, "", None)
ErrorCount(kind, specified, realized) ==
    [kind |-> kind, entity |-> <<>>, detail |-> "", line |-> None,
     specified |-> specified, realized |-> realized]
ErrorParse(detail) == ErrorAt("Parse", detail, None)
\* Error::InvalidBinaryBlock { id } and Error::UnsupportedBinaryVersion
\* { version } keep their number in specified.
ErrorWith(kind, n) == ErrorCount(kind, n, 0)

\* The ? operator: continue with the value of an Ok, return an Err as it is.
AndThen(r, F(_)) == IF r.err.kind = "Ok" THEN F(r.val[1]) ELSE r

Ok(v) == [err |-> NoError, val |-> <<v>>]
OkUnit == [err |-> NoError, val |-> <<>>]
Err(e) == [err |-> e, val |-> <<>>]
is_ok(r) == r.err.kind = "Ok"
is_err(r) == r.err.kind # "Ok"

(***************************************************************************)
(* Bytes the model distinguishes.                                          *)
(***************************************************************************)
NUL == 0
US == 31
TB == 9
LF == 10
CR == 13
SP == 32
QT == 34
EQ == 61
DEL == 127

\* builder/mod.rs check_string: '\x00'..='\x1F' | '\x7F' is unsafe.
is_control(c) == (0 <= c /\ c <= 31) \/ c = 127

check_string_ok(value) == \A i \in 1..Len(value) : ~is_control(value[i])

check_string(value) ==
    IF check_string_ok(value) THEN Ok(value) ELSE Err(Error("UnsafeValueString"))

(***************************************************************************)
(* Charset (charset.rs): Null | Tagged(u8) | Undefined(String).            *)
(***************************************************************************)
CharsetNull == [tag |-> "Null", u |-> 0, s |-> <<>>]
CharsetTagged(u) == [tag |-> "Tagged", u |-> u, s |-> <<>>]
CharsetUndefined(s) == [tag |-> "Undefined", u |-> 0, s |-> s]

(***************************************************************************)
(* LoadSettings (settings.rs).                                             *)
(***************************************************************************)
LoadSettings ==
    [allow_string_control_characters : BOOLEAN,
     ignore_counts : BOOLEAN,
     ignore_invalid_tags : BOOLEAN]

LoadSettings_default ==
    [allow_string_control_characters |-> FALSE,
     ignore_counts |-> FALSE,
     ignore_invalid_tags |-> FALSE]

(***************************************************************************)
(* FontBuilder (builder/mod.rs).  Every operation returns the builder      *)
(* after the call and the call's result.                                   *)
(***************************************************************************)
FontBuilder_new(s) ==
    [settings |-> s,
     info |-> None,
     common |-> None,
     pages |-> <<>>,
     chars |-> <<>>,
     char_count |-> None,
     kernings |-> <<>>,
     kerning_count |-> None]

Font_new(info, common, pages, chars, kernings) ==
    [info |-> info, common |-> common, pages |-> pages, chars |-> chars,
     kernings |-> kernings]

set_info_overwrite(b, line, info) ==
    [b |-> [b EXCEPT !.info = Some(info)], r |-> OkUnit]

set_info(b, line, info) ==
    IF is_some(b.info)
    THEN [b |-> b, r |-> Err(ErrorAt("DuplicateInfoBlock", "", line))]
    ELSE [b |-> [b EXCEPT !.info = Some(info)], r |-> OkUnit]

set_common(b, line, common) ==
    IF is_some(b.common)
    THEN [b |-> b, r |-> Err(ErrorAt("DuplicateCommonBlock", "", line))]
    ELSE [b |-> [b EXCEPT !.common = Some(common)], r |-> OkUnit]

add_page_any_id(b, page) ==
    IF page.id >= Len(b.pages)
    THEN [b |-> [b EXCEPT !.pages = Append(@, page.file)], r |-> OkUnit]
    ELSE [b |-> b, r |-> Err(Error("BrokenPageList"))]

add_page(b, page) ==
    IF page.id = Len(b.pages)
    THEN [b |-> [b EXCEPT !.pages = Append(@, page.file)], r |-> OkUnit]
    ELSE [b |-> b, r |-> Err(Error("BrokenPageList"))]

add_char(b, char) ==
    [b |-> [b EXCEPT !.chars = Append(@, char)], r |-> OkUnit]

\* Vec::reserve changes capacity only, which the model does not observe.
set_char_count(b, line, char_count) ==
    IF is_some(b.char_count)
    THEN [b |-> b, r |-> Err(ErrorAt("DuplicateCharCount", "", line))]
    ELSE [b |-> [b EXCEPT !.char_count = Some(char_count)], r |-> OkUnit]

add_kerning(b, kerning) ==
    [b |-> [b EXCEPT !.kernings = Append(@, kerning)], r |-> OkUnit]

set_kerning_count(b, line, kerning_count) ==
    IF is_some(b.kerning_count)
    THEN [b |-> b, r |-> Err(ErrorAt("DuplicateKerningCount", "", line))]
    ELSE [b |-> [b EXCEPT !.kerning_count = Some(kerning_count)], r |-> OkUnit]

\* build(), lines 39-40: info and common are taken or the build fails.
missing_block_common_first(b) ==
    IF is_none(b.common) THEN Some(Error("NoCommonBlock"))
    ELSE IF is_none(b.info) THEN Some(Error("NoInfoBlock"))
    ELSE None

missing_block(b) ==
    IF is_none(b.info) THEN Some(Error("NoInfoBlock"))
    ELSE IF is_none(b.common) THEN Some(Error("NoCommonBlock"))
    ELSE None

\* build(), lines 41-61: the declared counts against the realized lengths.
count_error_less(b, common) ==
    IF b.settings.ignore_counts THEN None
    ELSE IF is_some(b.char_count) /\ b.char_count[1] < Len(b.chars)
    THEN Some(ErrorCount("InvalidCharCount", b.char_count[1], Len(b.chars)))
    ELSE IF is_some(b.kerning_count) /\ b.kerning_count[1] < Len(b.kernings)
    THEN Some(ErrorCount("InvalidKerningCount", b.kerning_count[1],
                         Len(b.kernings)))
    ELSE IF common.pages < Len(b.pages)
    THEN Some(ErrorCount("InvalidPageCount", common.pages, Len(b.pages)))
    ELSE None

count_error(b, common) ==
    IF b.settings.ignore_counts THEN None
    ELSE IF is_some(b.char_count) /\ b.char_count[1] # Len(b.chars)
    THEN Some(ErrorCount("InvalidCharCount", b.char_count[1], Len(b.chars)))
    ELSE IF is_some(b.kerning_count) /\ b.kerning_count[1] # Len(b.kernings)
    THEN Some(ErrorCount("InvalidKerningCount", b.kerning_count[1],
                         Len(b.kernings)))
    ELSE IF common.pages # Len(b.pages)
    THEN Some(ErrorCount("InvalidPageCount", common.pages, Len(b.pages)))
    ELSE None

\* build(), lines 62-67: every page and then the face go through
\* check_string; all failures are the same UnsafeValueString kind.
string_error(b, info) ==
    IF b.settings.allow_string_control_characters THEN None
    ELSE IF \/ \E i \in 1..Len(b.pages) : is_err(check_string(b.pages[i]))
            \/ is_err(check_string(info.face))
    THEN Some(Error("UnsafeValueString"))
    ELSE None

FontBuilder_build(b) ==
    IF is_some(missing_block(b)) THEN Err(missing_block(b)[1])
    ELSE IF is_some(count_error(b, b.common[1]))
    THEN Err(count_error(b, b.common[1])[1])
    ELSE IF is_some(string_error(b, b.info[1]))
    THEN Err(string_error(b, b.info[1])[1])
    ELSE Ok(Font_new(b.info[1], b.common[1], b.pages, b.chars, b.kernings))

(***************************************************************************)
(* Font::validate_references (font.rs).  InvalidCharPage carries char_id   *)
(* and page_id in the fields specified and realized; InvalidKerningChar    *)
(* carries id in specified.                                                *)
(***************************************************************************)
validate_char_references_strict(font) ==
    LET bad == {i \in 1..Len(font.chars) : Len(font.pages) < font.chars[i].page}
        first_bad == CHOOSE i \in bad : \A j \in bad : i <= j
    IN IF bad = {} THEN OkUnit
       ELSE Err(ErrorCount("InvalidCharPage", font.chars[first_bad].id,
                           font.chars[first_bad].page))

validate_char_references(font) ==
    LET bad == {i \in 1..Len(font.chars) : Len(font.pages) <= font.chars[i].page}
        first_bad == CHOOSE i \in bad : \A j \in bad : i <= j
    IN IF bad = {} THEN OkUnit
       ELSE Err(ErrorCount("InvalidCharPage", font.chars[first_bad].id,
                           font.chars[first_bad].page))

validate_kerning_references(font) ==
    LET set == {font.chars[i].id : i \in 1..Len(font.chars)}
        bad == {i \in 1..Len(font.kernings) :
                  font.kernings[i].first \notin set
                  \/ font.kernings[i].second \notin set}
        first_bad == CHOOSE i \in bad : \A j \in bad : i <= j
    IN IF bad = {} THEN OkUnit
       ELSE IF font.kernings[first_bad].first \notin set
       THEN Err(ErrorWith("InvalidKerningChar", font.kernings[first_bad].first))
       ELSE Err(ErrorWith("InvalidKerningChar", font.kernings[first_bad].second))

validate_references(font) ==
    IF is_err(validate_char_references(font)) THEN validate_char_references(font)
    ELSE validate_kerning_references(font)

(***************************************************************************)
(* Binary packing primitives (binary/impls.rs, binary/pack.rs,             *)
(* binary/bits.rs).                                                        *)
(***************************************************************************)
take(src, n) == SubSeq(src, 1, n)
drop(src, n) == SubSeq(src, n + 1, Len(src))

RECURSIVE to_le_bytes(_, _)
to_le_bytes(v, n) ==
    IF n = 0 THEN <<>> ELSE <<v % 256>> \o to_le_bytes(v \div 256, n - 1)

RECURSIVE from_le_bytes(_)
from_le_bytes(bytes) ==
    IF bytes = <<>> THEN 0 ELSE bytes[1] + 256 * from_le_bytes(Tail(bytes))

\* i16::to_le_bytes / i16::from_le_bytes: two's complement in 16 bits.
i16_to_bits(v) == (v + 65536) % 65536
i16_from_bits(u) == IF u >= 32768 THEN u - 65536 ELSE u

pack_u16(v) == to_le_bytes(v, 2)
pack_i16(v) == to_le_bytes(i16_to_bits(v), 2)
pack_u32(v) == to_le_bytes(v, 4)
unpack_u8(src, off) == src[off + 1]
unpack_u16(src, off) == from_le_bytes(SubSeq(src, off + 1, off + 2))
unpack_i16(src, off) == i16_from_bits(unpack_u16(src, off))
unpack_u32(src, off) == from_le_bytes(SubSeq(src, off + 1, off + 4))

overflow == Err(ErrorParse("buffer: overflow"))
underflow == Err(ErrorParse("buffer: underflow"))

mask(bit) == 2 ^ bit
BitField_get(bits, bit) == (bits \div mask(bit)) % 2 = 1
BitField_set(bits, bit, v) ==
    IF v THEN (IF BitField_get(bits, bit) THEN bits ELSE bits + mask(bit))
    ELSE (IF BitField_get(bits, bit) THEN bits - mask(bit) ELSE bits)

SMOOTH == 7
UNICODE == 6
ITALIC == 5
BOLD == 4
PACKED == 0

\* binary/constants.rs is not among the sources: the block ids follow the
\* BMFont file format (Block::new(0x01, ..) in impls.rs tests).
INFO == 1
COMMON == 2
PAGES == 3
CHARS == 4
KERNING_PAIRS == 5

TORCH == 4607298
\* Magic(u32) is kept as its top byte (hi) and its low 24 bits (lo), the two
\* parts new() and version() work on.  InvalidBinary carries the four bytes
\* of the u32.
Magic_new(version) == [hi |-> version, lo |-> TORCH]
Magic_PACK_LEN == 4
Magic_pack(magic) == to_le_bytes(magic.lo, 3) \o <<magic.hi>>
Magic_version(magic) ==
    IF magic.lo # TORCH
    THEN Err(ErrorEntity("InvalidBinary", Magic_pack(magic), "", None))
    ELSE Ok(magic.hi)

Block_PACK_LEN == 5
Block_pack(id, len) == <<id>> \o pack_u32(len)
Block_unpack(src) == [id |-> unpack_u8(src, 0), len |-> unpack_u32(src, 1)]

\* c_string: a string with an embedded NUL cannot be written.
c_string_any(bytes) == Ok(bytes)

c_string(bytes) ==
    IF \E i \in 1..Len(bytes) : bytes[i] = NUL
    THEN Err(ErrorParse("CString: contains NUL"))
    ELSE Ok(bytes)

\* String::from_utf8; the strings of the model are ASCII, any byte above
\* 0x7F stands for an invalid sequence.
utf8_string(vec) ==
    IF \A i \in 1..Len(vec) : vec[i] < 128 THEN Ok(vec)
    ELSE Err(ErrorParse("String: invalid utf-8"))

str_dyn_len(str) == Len(str) + 1
str_pack_dyn(str, dst) ==
    IF is_err(c_string(str)) THEN c_string(str) ELSE Ok(dst \o str \o <<NUL>>)

\* UnpackDyn<C> for String: the bytes up to the first NUL; the result is
\* the string and the number of bytes taken.
nul_index(src) ==
    IF \E i \in 1..Len(src) : src[i] = NUL
    THEN CHOOSE i \in 1..Len(src) :
           src[i] = NUL /\ \A j \in 1..(i - 1) : src[j] # NUL
    ELSE 0

String_unpack_dyn(src) ==
    IF nul_index(src) = 0 THEN Err(ErrorParse("CString: missing NUL"))
    ELSE IF is_err(utf8_string(take(src, nul_index(src) - 1)))
    THEN utf8_string(take(src, nul_index(src) - 1))
    ELSE Ok([obj |-> take(src, nul_index(src) - 1), len |-> nul_index(src)])

\* Info::check_encoding (font.rs).
check_encoding(info) ==
    IF info.unicode /\ info.charset.tag # "Null"
    THEN Err(Error("InvalidCharsetEncoding"))
    ELSE OkUnit

Info_PACK_DYN_MIN == 14
Info_dyn_len(info) == Info_PACK_DYN_MIN + str_dyn_len(info.face)

Info_charset_byte(info) ==
    IF info.charset.tag = "Tagged" THEN info.charset.u ELSE 0

Info_bits(info) ==
    BitField_set(BitField_set(BitField_set(BitField_set(0,
        SMOOTH, info.smooth), UNICODE, info.unicode), ITALIC, info.italic),
        BOLD, info.bold)

Info_pack_dyn(info, dst) ==
    str_pack_dyn(info.face,
        dst \o pack_i16(info.size) \o <<Info_bits(info), Info_charset_byte(info)>>
            \o pack_u16(info.stretch_h) \o <<info.aa>> \o info.padding
            \o info.spacing \o <<info.outline>>)

Info_unpack_charset_tagged(charset, unicode) == CharsetTagged(charset)

Info_unpack_charset(charset, unicode) ==
    IF charset = 0 /\ unicode THEN CharsetNull ELSE CharsetTagged(charset)

Info_unpack_dyn(src) ==
    IF Len(src) < Info_PACK_DYN_MIN THEN underflow
    ELSE LET face == String_unpack_dyn(drop(src, Info_PACK_DYN_MIN))
             bits == unpack_u8(src, 2)
         IN IF is_err(face) THEN face
            ELSE Ok([obj |->
                       [face |-> face.val[1].obj,
                        size |-> unpack_i16(src, 0),
                        bold |-> BitField_get(bits, BOLD),
                        italic |-> BitField_get(bits, ITALIC),
                        charset |-> Info_unpack_charset(unpack_u8(src, 3),
                                        BitField_get(bits, UNICODE)),
                        unicode |-> BitField_get(bits, UNICODE),
                        stretch_h |-> unpack_u16(src, 4),
                        smooth |-> BitField_get(bits, SMOOTH),
                        aa |-> unpack_u8(src, 6),
                        padding |-> SubSeq(src, 8, 11),
                        spacing |-> SubSeq(src, 12, 13),
                        outline |-> unpack_u8(src, 13)],
                     len |-> Info_PACK_DYN_MIN + face.val[1].len])

unpack_dyn_tight_loose(r, src) ==
    IF is_err(r) THEN r
    ELSE IF r.val[1].len <= Len(src) THEN Ok(r.val[1].obj)
    ELSE overflow

\* UnpackDyn::unpack_dyn_tight (pack.rs): the object must fill src exactly.
unpack_dyn_tight(r, src) ==
    IF is_err(r) THEN r
    ELSE IF r.val[1].len = Len(src) THEN Ok(r.val[1].obj)
    ELSE overflow

\* TryFrom<u8> for Packing and for Chnl (font.rs), through parse_u8.
Packing_try_from(u) ==
    IF u <= 4 THEN Ok(u) ELSE Err(ErrorParse("Packing: invalid u8"))

Chnl_try_from(u) ==
    IF u < 16 THEN Ok(u) ELSE Err(ErrorParse("Chnl: invalid u8"))

Common_PACK_LEN == 15

Common_pack(common, dst) ==
    dst \o pack_u16(common.line_height) \o pack_u16(common.base)
        \o pack_u16(common.scale_w) \o pack_u16(common.scale_h)
        \o pack_u16(common.pages)
        \o <<BitField_set(0, PACKED, common.packed), common.alpha_chnl,
             common.red_chnl, common.green_chnl, common.blue_chnl>>

\* Unpack<V3> for Common; src holds at least Common_PACK_LEN bytes.
Common_unpack(src) ==
    IF \E k \in 11..14 : is_err(Packing_try_from(unpack_u8(src, k)))
    THEN Err(ErrorParse("Packing: invalid u8"))
    ELSE Ok([line_height |-> unpack_u16(src, 0),
             base |-> unpack_u16(src, 2),
             scale_w |-> unpack_u16(src, 4),
             scale_h |-> unpack_u16(src, 6),
             pages |-> unpack_u16(src, 8),
             packed |-> BitField_get(unpack_u8(src, 10), PACKED),
             alpha_chnl |-> unpack_u8(src, 11),
             red_chnl |-> unpack_u8(src, 12),
             green_chnl |-> unpack_u8(src, 13),
             blue_chnl |-> unpack_u8(src, 14)])

\* Unpack::unpack_tight is called by load.rs but is not in pack.rs: by the
\* payload rule of the format a short payload is an underflow and trailing
\* bytes are an overflow.
Common_unpack_tight(src) ==
    IF Len(src) < Common_PACK_LEN THEN underflow
    ELSE IF Len(src) > Common_PACK_LEN THEN overflow
    ELSE Common_unpack(src)

Char_PACK_LEN == 20

Char_pack_swapped(char, dst) ==
    dst \o pack_u32(char.id) \o pack_u16(char.y) \o pack_u16(char.x)
        \o pack_u16(char.width) \o pack_u16(char.height)
        \o pack_i16(char.xoffset) \o pack_i16(char.yoffset)
        \o pack_i16(char.xadvance) \o <<char.page, char.chnl>>

Char_pack(char, dst) ==
    dst \o pack_u32(char.id) \o pack_u16(char.x) \o pack_u16(char.y)
        \o pack_u16(char.width) \o pack_u16(char.height)
        \o pack_i16(char.xoffset) \o pack_i16(char.yoffset)
        \o pack_i16(char.xadvance) \o <<char.page, char.chnl>>

Char_unpack(src) ==
    IF is_err(Chnl_try_from(unpack_u8(src, 19)))
    THEN Chnl_try_from(unpack_u8(src, 19))
    ELSE Ok([id |-> unpack_u32(src, 0),
             x |-> unpack_u16(src, 4),
             y |-> unpack_u16(src, 6),
             width |-> unpack_u16(src, 8),
             height |-> unpack_u16(src, 10),
             xoffset |-> unpack_i16(src, 12),
             yoffset |-> unpack_i16(src, 14),
             xadvance |-> unpack_i16(src, 16),
             page |-> unpack_u8(src, 18),
             chnl |-> unpack_u8(src, 19)])

Kerning_PACK_LEN == 10

Kerning_pack(kerning, dst) ==
    dst \o pack_u32(kerning.first) \o pack_u32(kerning.second)
        \o pack_i16(kerning.amount)

Kerning_unpack(src) ==
    Ok([first |-> unpack_u32(src, 0),
        second |-> unpack_u32(src, 4),
        amount |-> unpack_i16(src, 8)])

\* Unpack::unpack_take_all over Char records: the items in order, or the
\* first error (a last record shorter than PACK_LEN is an underflow).
RECURSIVE Char_unpack_take_all(_, _)
Char_unpack_take_all(src, acc) ==
    IF src = <<>> THEN Ok(acc)
    ELSE IF Len(src) < Char_PACK_LEN THEN underflow
    ELSE IF is_err(Char_unpack(take(src, Char_PACK_LEN)))
    THEN Char_unpack(take(src, Char_PACK_LEN))
    ELSE Char_unpack_take_all(drop(src, Char_PACK_LEN),
             Append(acc, Char_unpack(take(src, Char_PACK_LEN)).val[1]))

RECURSIVE Kerning_unpack_take_all(_, _)
Kerning_unpack_take_all(src, acc) ==
    IF src = <<>> THEN Ok(acc)
    ELSE IF Len(src) < Kerning_PACK_LEN THEN underflow
    ELSE Kerning_unpack_take_all(drop(src, Kerning_PACK_LEN),
             Append(acc, Kerning_unpack(take(src, Kerning_PACK_LEN)).val[1]))

\* UnpackDyn::unpack_dyn_take_all over NUL-terminated strings.
RECURSIVE String_unpack_dyn_take_all(_, _)
String_unpack_dyn_take_all(src, acc) ==
    IF src = <<>> THEN Ok(acc)
    ELSE IF is_err(String_unpack_dyn(src)) THEN String_unpack_dyn(src)
    ELSE String_unpack_dyn_take_all(drop(src, String_unpack_dyn(src).val[1].len),
             Append(acc, String_unpack_dyn(src).val[1].obj))

(***************************************************************************)
(* Binary export (binary/store.rs).  StoreAssist's dst is threaded through *)
(* the steps; each step returns the extended dst or the error that aborts  *)
(* to_vec.                                                                 *)
(***************************************************************************)
StoreAssist_init(dst, version) == Ok(dst \o Magic_pack(Magic_new(version)))

StoreAssist_block(dst, id, len) == dst \o Block_pack(id, len)

StoreAssist_info_unchecked(dst, font, strict) ==
    Info_pack_dyn(font.info,
        StoreAssist_block(dst, INFO, Info_dyn_len(font.info)))

StoreAssist_info(dst, font, strict) ==
    IF strict /\ is_err(check_encoding(font.info)) THEN check_encoding(font.info)
    ELSE Info_pack_dyn(font.info,
             StoreAssist_block(dst, INFO, Info_dyn_len(font.info)))

StoreAssist_common(dst, font) ==
    Ok(Common_pack(font.common, StoreAssist_block(dst, COMMON, Common_PACK_LEN)))

RECURSIVE pages_dyn_len(_)
pages_dyn_len(pages) ==
    IF pages = <<>> THEN 0 ELSE str_dyn_len(Head(pages)) + pages_dyn_len(Tail(pages))

\* The for loop of StoreAssist::pages from page index id on; len is the
\* length of the first file name.
RECURSIVE StoreAssist_pages_loop(_, _, _, _, _)
StoreAssist_pages_loop(pages, id, len, strict, dst) ==
    IF id >= Len(pages) THEN Ok(dst)
    ELSE IF strict /\ id # 0 /\ Len(pages[id + 1]) # len
    THEN Err(Error("IncongruentPageNameLen"))
    ELSE IF is_err(str_pack_dyn(pages[id + 1], dst))
    THEN str_pack_dyn(pages[id + 1], dst)
    ELSE StoreAssist_pages_loop(pages, id + 1,
             IF strict /\ id = 0 THEN Len(pages[id + 1]) ELSE len,
             strict, str_pack_dyn(pages[id + 1], dst).val[1])

StoreAssist_pages_lenient(dst, font, strict) ==
    StoreAssist_pages_loop(font.pages, 0, 0, FALSE,
        StoreAssist_block(dst, PAGES, pages_dyn_len(font.pages)))

StoreAssist_pages(dst, font, strict) ==
    StoreAssist_pages_loop(font.pages, 0, 0, strict,
        StoreAssist_block(dst, PAGES, pages_dyn_len(font.pages)))

RECURSIVE Chars_pack(_, _)
Chars_pack(chars, dst) ==
    IF chars = <<>> THEN dst ELSE Chars_pack(Tail(chars), Char_pack(Head(chars), dst))

StoreAssist_chars(dst, font) ==
    Ok(Chars_pack(font.chars,
           StoreAssist_block(dst, CHARS, Char_PACK_LEN * Len(font.chars))))

RECURSIVE Kernings_pack(_, _)
Kernings_pack(kernings, dst) ==
    IF kernings = <<>> THEN dst
    ELSE Kernings_pack(Tail(kernings), Kerning_pack(Head(kernings), dst))

StoreAssist_kerning_pairs_always(dst, font) ==
    Ok(Kernings_pack(font.kernings,
           StoreAssist_block(dst, KERNING_PAIRS,
               Kerning_PACK_LEN * Len(font.kernings))))

StoreAssist_kerning_pairs(dst, font) ==
    IF font.kernings = <<>> THEN Ok(dst)
    ELSE Ok(Kernings_pack(font.kernings,
                StoreAssist_block(dst, KERNING_PAIRS,
                    Kerning_PACK_LEN * Len(font.kernings))))

\* binary::to_vec: StoreAssist::v3(font, true), then the five steps.
binary_to_vec(font) ==
    AndThen(StoreAssist_init(<<>>, 3), LAMBDA d0 :
    AndThen(StoreAssist_info(d0, font, TRUE), LAMBDA d1 :
    AndThen(StoreAssist_common(d1, font), LAMBDA d2 :
    AndThen(StoreAssist_pages(d2, font, TRUE), LAMBDA d3 :
    AndThen(StoreAssist_chars(d3, font), LAMBDA d4 :
    StoreAssist_kerning_pairs(d4, font))))))

(***************************************************************************)
(* Binary import (binary/load.rs).                                         *)
(***************************************************************************)
Magic_unpack_take(src) ==
    IF Len(src) < Magic_PACK_LEN THEN underflow
    ELSE Ok([obj |-> [hi |-> src[Magic_PACK_LEN],
                      lo |-> from_le_bytes(take(src, Magic_PACK_LEN - 1))],
             src |-> drop(src, Magic_PACK_LEN)])

FontBuilderBinary_new_any(src, version) ==
    Ok([src |-> src, version |-> version, info |-> None, common |-> None,
        pages |-> <<>>, chars |-> <<>>, kernings |-> <<>>])

FontBuilderBinary_new(src, version) ==
    IF version = 3
    THEN Ok([src |-> src, version |-> version, info |-> None, common |-> None,
             pages |-> <<>>, chars |-> <<>>, kernings |-> <<>>])
    ELSE Err(ErrorWith("UnsupportedBinaryVersion", version))

\* from_bytes_ext up to the construction of the FontBuilderBinary.
binary_open(bytes) ==
    AndThen(Magic_unpack_take(bytes), LAMBDA m :
    AndThen(Magic_version(m.obj), LAMBDA version :
    FontBuilderBinary_new(m.src, version)))

FontBuilderBinary_block_clamped(b) ==
    IF Len(b.src) < Block_PACK_LEN THEN underflow
    ELSE LET block == Block_unpack(take(b.src, Block_PACK_LEN))
             rest == drop(b.src, Block_PACK_LEN)
             len == IF block.len <= Len(rest) THEN block.len ELSE Len(rest)
         IN Ok([id |-> block.id,
                bytes |-> take(rest, len),
                b |-> [b EXCEPT !.src = drop(rest, len)]])

\* block() with bytes(): the block header, then len bytes of payload.
FontBuilderBinary_block(b) ==
    IF Len(b.src) < Block_PACK_LEN THEN underflow
    ELSE LET block == Block_unpack(take(b.src, Block_PACK_LEN))
             rest == drop(b.src, Block_PACK_LEN)
         IN IF block.len <= Len(rest)
            THEN Ok([id |-> block.id,
                     bytes |-> take(rest, block.len),
                     b |-> [b EXCEPT !.src = drop(rest, block.len)]])
            ELSE underflow

FontBuilderBinary_info(b, src) ==
    IF is_some(b.info) THEN Err(ErrorAt("DuplicateInfoBlock", "", None))
    ELSE AndThen(unpack_dyn_tight(Info_unpack_dyn(src), src), LAMBDA info :
         Ok([b EXCEPT !.info = Some(info)]))

FontBuilderBinary_common(b, src) ==
    IF is_some(b.common) THEN Err(ErrorAt("DuplicateCommonBlock", "", None))
    ELSE AndThen(Common_unpack_tight(src), LAMBDA common :
         Ok([b EXCEPT !.common = Some(common)]))

FontBuilderBinary_pages(b, src) ==
    AndThen(String_unpack_dyn_take_all(src, b.pages), LAMBDA pages :
    Ok([b EXCEPT !.pages = pages]))

FontBuilderBinary_chars(b, src) ==
    AndThen(Char_unpack_take_all(src, b.chars), LAMBDA chars :
    Ok([b EXCEPT !.chars = chars]))

FontBuilderBinary_kerning_pairs(b, src) ==
    AndThen(Kerning_unpack_take_all(src, b.kernings), LAMBDA kernings :
    Ok([b EXCEPT !.kernings = kernings]))

FontBuilderBinary_next_skip(b) ==
    AndThen(FontBuilderBinary_block(b), LAMBDA blk :
    CASE blk.id = INFO -> FontBuilderBinary_info(blk.b, blk.bytes)
      [] blk.id = COMMON -> FontBuilderBinary_common(blk.b, blk.bytes)
      [] blk.id = PAGES -> FontBuilderBinary_pages(blk.b, blk.bytes)
      [] blk.id = CHARS -> FontBuilderBinary_chars(blk.b, blk.bytes)
      [] blk.id = KERNING_PAIRS -> FontBuilderBinary_kerning_pairs(blk.b, blk.bytes)
      [] OTHER -> Ok(blk.b))

\* next(): one block is read and dispatched on its id.
FontBuilderBinary_next(b) ==
    AndThen(FontBuilderBinary_block(b), LAMBDA blk :
    CASE blk.id = INFO -> FontBuilderBinary_info(blk.b, blk.bytes)
      [] blk.id = COMMON -> FontBuilderBinary_common(blk.b, blk.bytes)
      [] blk.id = PAGES -> FontBuilderBinary_pages(blk.b, blk.bytes)
      [] blk.id = CHARS -> FontBuilderBinary_chars(blk.b, blk.bytes)
      [] blk.id = KERNING_PAIRS -> FontBuilderBinary_kerning_pairs(blk.b, blk.bytes)
      [] OTHER -> Err(ErrorWith("InvalidBinaryBlock", blk.id)))

FontBuilderBinary_build(b) ==
    IF is_none(b.info) THEN Err(Error("NoInfoBlock"))
    ELSE IF is_none(b.common) THEN Err(Error("NoCommonBlock"))
    ELSE IF Len(b.pages) # b.common[1].pages
    THEN Err(ErrorCount("PageCountMismatch", b.common[1].pages, Len(b.pages)))
    ELSE Ok(Font_new(b.info[1], b.common[1], b.pages, b.chars, b.kernings))

\* The ASCII bytes of the tags, keys and charset names the text codec
\* reads and writes.
Lit_info == <<105, 110, 102, 111>>
Lit_common == <<99, 111, 109, 109, 111, 110>>
Lit_page == <<112, 97, 103, 101>>
Lit_chars == <<99, 104, 97, 114, 115>>
Lit_char == <<99, 104, 97, 114>>
Lit_kernings == <<107, 101, 114, 110, 105, 110, 103, 115>>
Lit_kerning == <<107, 101, 114, 110, 105, 110, 103>>
Lit_tag == <<116, 97, 103>>
Lit_attribute == <<97, 116, 116, 114, 105, 98, 117, 116, 101>>
Lit_key == <<107, 101, 121>>
Lit_id == <<105, 100>>
Lit_x == <<120>>
Lit_y == <<121>>
Lit_width == <<119, 105, 100, 116, 104>>
Lit_height == <<104, 101, 105, 103, 104, 116>>
Lit_xoffset == <<120, 111, 102, 102, 115, 101, 116>>
Lit_yoffset == <<121, 111, 102, 102, 115, 101, 116>>
Lit_xadvance == <<120, 97, 100, 118, 97, 110, 99, 101>>
Lit_chnl == <<99, 104, 110, 108>>
Lit_lineHeight == <<108, 105, 110, 101, 72, 101, 105, 103, 104, 116>>
Lit_base == <<98, 97, 115, 101>>
Lit_scaleW == <<115, 99, 97, 108, 101, 87>>
Lit_scaleH == <<115, 99, 97, 108, 101, 72>>
Lit_pages == <<112, 97, 103, 101, 115>>
Lit_packed == <<112, 97, 99, 107, 101, 100>>
Lit_alphaChnl == <<97, 108, 112, 104, 97, 67, 104, 110, 108>>
Lit_redChnl == <<114, 101, 100, 67, 104, 110, 108>>
Lit_greenChnl == <<103, 114, 101, 101, 110, 67, 104, 110, 108>>
Lit_blueChnl == <<98, 108, 117, 101, 67, 104, 110, 108>>
Lit_count == <<99, 111, 117, 110, 116>>
Lit_face == <<102, 97, 99, 101>>
Lit_size == <<115, 105, 122, 101>>
Lit_bold == <<98, 111, 108, 100>>
Lit_italic == <<105, 116, 97, 108, 105, 99>>
Lit_charset == <<99, 104, 97, 114, 115, 101, 116>>
Lit_unicode == <<117, 110, 105, 99, 111, 100, 101>>
Lit_stretchH == <<115, 116, 114, 101, 116, 99, 104, 72>>
Lit_smooth == <<115, 109, 111, 111, 116, 104>>
Lit_aa == <<97, 97>>
Lit_padding == <<112, 97, 100, 100, 105, 110, 103>>
Lit_spacing == <<115, 112, 97, 99, 105, 110, 103>>
Lit_outline == <<111, 117, 116, 108, 105, 110, 101>>
Lit_first == <<102, 105, 114, 115, 116>>
Lit_second == <<115, 101, 99, 111, 110, 100>>
Lit_amount == <<97, 109, 111, 117, 110, 116>>
Lit_file == <<102, 105, 108, 101>>
Lit_ANSI == <<65, 78, 83, 73>>
Lit_ARABIC == <<65, 82, 65, 66, 73, 67>>
Lit_BALTIC == <<66, 65, 76, 84, 73, 67>>
Lit_CHINESEBIG5 == <<67, 72, 73, 78, 69, 83, 69, 66, 73, 71, 53>>
Lit_DEFAULT == <<68, 69, 70, 65, 85, 76, 84>>
Lit_EASTEUROPE == <<69, 65, 83, 84, 69, 85, 82, 79, 80, 69>>
Lit_GB2312 == <<71, 66, 50, 51, 49, 50>>
Lit_GREEK == <<71, 82, 69, 69, 75>>
Lit_HANGUL == <<72, 65, 78, 71, 85, 76>>
Lit_HEBREW == <<72, 69, 66, 82, 69, 87>>
Lit_JOHAB == <<74, 79, 72, 65, 66>>
Lit_MAC == <<77, 65, 67>>
Lit_OEM == <<79, 69, 77>>
Lit_RUSSIAN == <<82, 85, 83, 83, 73, 65, 78>>
Lit_SHIFTJIS == <<83, 72, 73, 70, 84, 74, 73, 83>>
Lit_SYMBOL == <<83, 89, 77, 66, 79, 76>>
Lit_THAI == <<84, 72, 65, 73>>
Lit_TURKISH == <<84, 85, 82, 75, 73, 83, 72>>
Lit_VIETNAMESE == <<86, 73, 69, 84, 78, 65, 77, 69, 83, 69>>

(***************************************************************************)
(* TaggedAttributes (tagged_attributes/mod.rs): the tokenizer of the text  *)
(* format.  Its state is [bytes, index, line], index counting from 0.      *)
(* Every method returns the tokenizer after the call and the call's        *)
(* result; a tokenizer error is an Err whose kind is the tokenizer's       *)
(* variant (BadCRLF, ExpectedEq, UnexpectedEndOfFile, UnexpectedEndOfLine).*)
(***************************************************************************)
TaggedAttributes_from_bytes(bytes) == [bytes |-> bytes, index |-> 0, line |-> 1]

\* &self.bytes[head..tail]
slice(bytes, head, tail) == SubSeq(bytes, head + 1, tail)

advance(t, n) == [t EXCEPT !.index = @ + n]

byte(t) == IF t.index < Len(t.bytes) THEN Some(t.bytes[t.index + 1]) ELSE None

lf_over(t, n) == advance(t, 1)

lf(t, n) == advance(t, n)

crlf_any(t, n) == [t |-> lf(advance(t, 1), n), r |-> OkUnit]

crlf(t, n) ==
    IF byte(advance(t, 1)) = Some(LF)
    THEN [t |-> lf(advance(t, 1), n), r |-> OkUnit]
    ELSE [t |-> advance(t, 1), r |-> Err(Error("BadCRLF"))]

RECURSIVE skip(_)
skip(t) ==
    IF is_some(byte(t)) /\ byte(t)[1] \in {SP, TB} THEN skip(advance(t, 1))
    ELSE [t |-> t, r |-> byte(t)]

RECURSIVE value_tail_wn(_)
value_tail_wn(t) ==
    IF is_none(byte(t)) THEN [t |-> t, r |-> Ok(t.index)]
    ELSE IF byte(t)[1] = CR
    THEN IF is_err(crlf(t, 0).r) THEN crlf(t, 0)
         ELSE [t |-> crlf(t, 0).t, r |-> Ok(t.index)]
    ELSE IF byte(t)[1] = LF THEN [t |-> lf(t, 0), r |-> Ok(t.index)]
    ELSE IF byte(t)[1] \in {SP, TB} THEN [t |-> advance(t, 1), r |-> Ok(t.index)]
    ELSE value_tail_wn(advance(t, 1))

RECURSIVE value_tail_qt(_)
value_tail_qt(t) ==
    IF is_none(byte(t)) THEN [t |-> t, r |-> Err(Error("UnexpectedEndOfFile"))]
    ELSE IF byte(t)[1] \in {CR, LF}
    THEN [t |-> t, r |-> Err(Error("UnexpectedEndOfLine"))]
    ELSE IF byte(t)[1] = QT THEN [t |-> advance(t, 1), r |-> Ok(t.index)]
    ELSE value_tail_qt(advance(t, 1))

\* key_tail, lines 137-146: after the blank that ends a key, only blanks may
\* precede the '='.
RECURSIVE key_tail_eq(_)
key_tail_eq(t) ==
    IF is_none(byte(t)) THEN [t |-> t, r |-> Err(Error("ExpectedEq"))]
    ELSE IF byte(t)[1] = EQ THEN [t |-> advance(t, 1), r |-> OkUnit]
    ELSE IF byte(t)[1] \notin {SP, TB}
    THEN [t |-> advance(t, 1), r |-> Err(Error("ExpectedEq"))]
    ELSE key_tail_eq(advance(t, 1))

RECURSIVE key_tail(_)
key_tail(t) ==
    IF is_none(byte(t)) THEN [t |-> t, r |-> Err(Error("UnexpectedEndOfFile"))]
    ELSE IF byte(t)[1] > SP
    THEN IF byte(t)[1] = EQ THEN [t |-> advance(t, 1), r |-> Ok(t.index)]
         ELSE key_tail(advance(t, 1))
    ELSE IF byte(t)[1] \in {CR, LF}
    THEN [t |-> t, r |-> Err(Error("UnexpectedEndOfLine"))]
    ELSE IF byte(t)[1] \in {SP, TB}
    THEN IF is_err(key_tail_eq(advance(t, 1)).r) THEN key_tail_eq(advance(t, 1))
         ELSE [t |-> key_tail_eq(advance(t, 1)).t, r |-> Ok(t.index)]
    ELSE key_tail(advance(t, 1))

tag_peek(t) ==
    IF is_none(byte(t)) THEN [t |-> t, r |-> Ok(None)]
    ELSE [t |-> t, r |-> Ok(Some(<<byte(t)[1]>>))]

\* tag(): Ok(None) at the end of the input, Ok(Some(tag)) otherwise.
RECURSIVE tag(_)
tag(t) ==
    LET line_end(s, eol) ==
            IF is_err(eol.r) THEN eol
            ELSE tag([eol.t EXCEPT !.line = @ + 1])
        tag_end(s, tail) ==
            IF is_err(tail.r) THEN tail
            ELSE [t |-> tail.t,
                  r |-> Ok(Some(slice(t.bytes, s.t.index, tail.r.val[1])))]
        tag_head(s) ==
            IF is_none(s.r) THEN [t |-> s.t, r |-> Ok(None)]
            ELSE IF s.r[1] = CR THEN line_end(s, crlf(s.t, 1))
            ELSE IF s.r[1] = LF THEN tag([lf(s.t, 1) EXCEPT !.line = @ + 1])
            ELSE tag_end(s, value_tail_wn(advance(s.t, 1)))
    IN tag_head(skip(t))

key_value_value_quoted(t, key_head, key_tail_index) ==
    LET value_end(value_head, tail) ==
            IF is_err(tail.r) THEN tail
            ELSE [t |-> tail.t,
                  r |-> Ok(Some([key |-> slice(t.bytes, key_head, key_tail_index),
                                 value |-> slice(t.bytes, value_head,
                                                 tail.r.val[1])]))]
        value_start(s) ==
            IF is_none(s.r)
            THEN [t |-> s.t, r |-> Err(Error("UnexpectedEndOfLine"))]
            ELSE IF s.r[1] \in {CR, LF}
            THEN [t |-> advance(s.t, 1), r |-> Err(Error("UnexpectedEndOfLine"))]
            ELSE IF s.r[1] = QT
            THEN value_end(s.t.index, value_tail_qt(advance(s.t, 1)))
            ELSE value_end(s.t.index, value_tail_wn(advance(s.t, 1)))
    IN value_start(skip(t))

\* key_value(), lines 99-113: the value that follows a key.
key_value_value(t, key_head, key_tail_index) ==
    LET value_end(value_head, tail) ==
            IF is_err(tail.r) THEN tail
            ELSE [t |-> tail.t,
                  r |-> Ok(Some([key |-> slice(t.bytes, key_head, key_tail_index),
                                 value |-> slice(t.bytes, value_head,
                                                 tail.r.val[1])]))]
        value_start(s) ==
            IF is_none(s.r)
            THEN [t |-> s.t, r |-> Err(Error("UnexpectedEndOfLine"))]
            ELSE IF s.r[1] \in {CR, LF}
            THEN [t |-> advance(s.t, 1), r |-> Err(Error("UnexpectedEndOfLine"))]
            ELSE IF s.r[1] = QT
            THEN value_end(s.t.index + 1, value_tail_qt(advance(s.t, 1)))
            ELSE value_end(s.t.index, value_tail_wn(advance(s.t, 1)))
    IN value_start(skip(t))

key_value_headless(t) ==
    LET line_end(eol) ==
            IF is_err(eol.r) THEN eol ELSE [t |-> eol.t, r |-> Ok(None)]
        key_end(s, tail) ==
            IF is_err(tail.r) THEN tail
            ELSE key_value_value(tail.t, s.t.index + 1, tail.r.val[1])
        key_start(s) ==
            IF is_none(s.r) THEN [t |-> s.t, r |-> Ok(None)]
            ELSE IF s.r[1] = CR THEN line_end(crlf(s.t, 0))
            ELSE IF s.r[1] = LF THEN [t |-> lf(s.t, 0), r |-> Ok(None)]
            ELSE key_end(s, key_tail(advance(s.t, 1)))
    IN key_start(skip(t))

\* key_value(): Ok(None) at the end of the line or of the input.
key_value(t) ==
    LET line_end(eol) ==
            IF is_err(eol.r) THEN eol ELSE [t |-> eol.t, r |-> Ok(None)]
        key_end(s, tail) ==
            IF is_err(tail.r) THEN tail
            ELSE key_value_value(tail.t, s.t.index, tail.r.val[1])
        key_start(s) ==
            IF is_none(s.r) THEN [t |-> s.t, r |-> Ok(None)]
            ELSE IF s.r[1] = CR THEN line_end(crlf(s.t, 0))
            ELSE IF s.r[1] = LF THEN [t |-> lf(s.t, 0), r |-> Ok(None)]
            ELSE key_end(s, key_tail(advance(s.t, 1)))
    IN key_start(skip(t))

next_tag_zero_based(t) ==
    LET with_line(u) ==
            IF is_err(u.r)
            THEN [t |-> u.t,
                  r |-> Err(ErrorEntity("Parse", Lit_tag, u.r.err.kind,
                                        Some(u.t.line)))]
            ELSE IF is_none(u.r.val[1]) THEN u
            ELSE [t |-> u.t,
                  r |-> Ok(Some([tag |-> u.r.val[1][1], line |-> Some(u.t.line - 1)]))]
    IN with_line(tag(t))

\* Tags for TaggedAttributes (builder/tags.rs).
next_tag(t) ==
    LET with_line(u) ==
            IF is_err(u.r)
            THEN [t |-> u.t,
                  r |-> Err(ErrorEntity("Parse", Lit_tag, u.r.err.kind,
                                        Some(u.t.line)))]
            ELSE IF is_none(u.r.val[1]) THEN u
            ELSE [t |-> u.t,
                  r |-> Ok(Some([tag |-> u.r.val[1][1], line |-> Some(u.t.line)]))]
    IN with_line(tag(t))

next_attribute_zero_based(t) ==
    LET with_line(u) ==
            IF is_err(u.r)
            THEN [t |-> u.t,
                  r |-> Err(ErrorEntity("Parse", Lit_attribute, u.r.err.kind,
                                        Some(u.t.line)))]
            ELSE IF is_none(u.r.val[1]) THEN u
            ELSE [t |-> u.t,
                  r |-> Ok(Some([key |-> u.r.val[1][1].key,
                                 value |-> u.r.val[1][1].value,
                                 line |-> Some(u.t.line - 1)]))]
    IN with_line(key_value(t))

\* Attributes for TaggedAttributes (builder/attributes.rs).
next_attribute(t) ==
    LET with_line(u) ==
            IF is_err(u.r)
            THEN [t |-> u.t,
                  r |-> Err(ErrorEntity("Parse", Lit_attribute, u.r.err.kind,
                                        Some(u.t.line)))]
            ELSE IF is_none(u.r.val[1]) THEN u
            ELSE [t |-> u.t,
                  r |-> Ok(Some([key |-> u.r.val[1][1].key,
                                 value |-> u.r.val[1][1].value,
                                 line |-> Some(u.t.line)]))]
    IN with_line(key_value(t))

(***************************************************************************)
(* Value parsing (parse/mod.rs, charset.rs, font.rs).  A ParseError is an  *)
(* Err whose kind names the ParseError's variant.                          *)
(***************************************************************************)
PLUS == 43
MINUS == 45
COMMA == 44
ZERO == 48
NINE == 57

\* std::str::from_utf8; the strings of the model are ASCII, any byte above
\* 0x7F stands for an invalid sequence.
from_utf8(bytes) ==
    IF \A i \in 1..Len(bytes) : bytes[i] < 128 THEN Ok(bytes)
    ELSE Err(Error("Utf8Error"))

is_digit(c) == ZERO <= c /\ c <= NINE

RECURSIVE digits_value(_, _)
digits_value(digits, acc) ==
    IF digits = <<>> THEN acc
    ELSE digits_value(Tail(digits), acc * 10 + (Head(digits) - ZERO))

\* <integer>::from_str_radix(src, 10) for the type with range min..max: an
\* optional sign ('-' only for a signed type), then one or more digits.
from_str_radix(src, min, max) ==
    LET neg == min < 0 /\ src[1] = MINUS
        digits == IF src[1] = PLUS \/ neg THEN Tail(src) ELSE src
        v == IF neg THEN 0 - digits_value(digits, 0) ELSE digits_value(digits, 0)
    IN
    IF src = <<>> \/ digits = <<>> THEN Err(Error("ParseIntError"))
    ELSE IF \E i \in 1..Len(digits) : ~is_digit(digits[i])
    THEN Err(Error("ParseIntError"))
    ELSE IF v < min \/ v > max THEN Err(Error("ParseIntError"))
    ELSE Ok(v)

parse_i16(src) == from_str_radix(src, -32768, 32767)
\* TLC's integers end at 2^31 - 1; the model reads a u32 up to there.
parse_u32(src) == from_str_radix(src, 0, 2147483647)
parse_u16(src) == from_str_radix(src, 0, 65535)
parse_u8(src) == from_str_radix(src, 0, 255)
parse_bool(src) == AndThen(parse_u32(src), LAMBDA u : Ok(u # 0))

\* str::trim: the ASCII members of White_Space.
is_whitespace(c) == (TB <= c /\ c <= CR) \/ c = SP

RECURSIVE trim_start(_)
trim_start(src) ==
    IF src # <<>> /\ is_whitespace(Head(src)) THEN trim_start(Tail(src)) ELSE src

RECURSIVE trim_end(_)
trim_end(src) ==
    IF src # <<>> /\ is_whitespace(src[Len(src)])
    THEN trim_end(SubSeq(src, 1, Len(src) - 1))
    ELSE src

trim(src) == trim_end(trim_start(src))

RECURSIVE split(_, _)
split(src, cur) ==
    IF src = <<>> THEN <<cur>>
    ELSE IF Head(src) = COMMA THEN <<cur>> \o split(Tail(src), <<>>)
    ELSE split(Tail(src), Append(cur, Head(src)))

\* str::split_terminator(","): a trailing empty piece is dropped.
split_terminator(src) ==
    LET ts == split(src, <<>>) IN
    IF ts[Len(ts)] = <<>> THEN SubSeq(ts, 1, Len(ts) - 1) ELSE ts

\* Parse for [u8; N]: the first of the N elements that is missing or does
\* not parse ends the loop.
parse_array(src, n) ==
    LET ts == split_terminator(src)
        elem(i) == parse_u8(trim(ts[i]))
        bad == {i \in 1..n : i > Len(ts) \/ is_err(elem(i))}
        i0 == CHOOSE i \in bad : \A j \in bad : i <= j
    IN
    IF bad # {} THEN (IF i0 > Len(ts) THEN Err(Error("ArrayUnderflow")) ELSE elem(i0))
    ELSE IF Len(ts) > n THEN Err(Error("ArrayOverflow"))
    ELSE Ok([i \in 1..n |-> elem(i).val[1]])

\* charset.rs: the names Display writes and From<&str> reads.
CharsetNames ==
    {<<0, Lit_ANSI>>, <<178, Lit_ARABIC>>, <<186, Lit_BALTIC>>,
     <<136, Lit_CHINESEBIG5>>, <<1, Lit_DEFAULT>>, <<238, Lit_EASTEUROPE>>,
     <<134, Lit_GB2312>>, <<161, Lit_GREEK>>, <<129, Lit_HANGUL>>,
     <<177, Lit_HEBREW>>, <<130, Lit_JOHAB>>, <<77, Lit_MAC>>, <<255, Lit_OEM>>,
     <<204, Lit_RUSSIAN>>, <<128, Lit_SHIFTJIS>>, <<2, Lit_SYMBOL>>,
     <<222, Lit_THAI>>, <<162, Lit_TURKISH>>, <<163, Lit_VIETNAMESE>>}

\* From<&str> that knows the names but not the decimal form.
Charset_from_names_only(s) ==
    IF s = <<>> THEN CharsetNull
    ELSE IF \E n \in CharsetNames : n[2] = s
    THEN CharsetTagged((CHOOSE n \in CharsetNames : n[2] = s)[1])
    ELSE CharsetUndefined(s)

Charset_from(s) ==
    IF s = <<>> THEN CharsetNull
    ELSE IF \E n \in CharsetNames : n[2] = s
    THEN CharsetTagged((CHOOSE n \in CharsetNames : n[2] = s)[1])
    ELSE IF is_ok(parse_u8(s)) THEN CharsetTagged(parse_u8(s).val[1])
    ELSE CharsetUndefined(s)

\* Parse::parse_bytes for each type a key can have.
parse_bytes(type, bytes) ==
    CASE type = "String" -> from_utf8(bytes)
      [] type = "i16" -> AndThen(from_utf8(bytes), parse_i16)
      [] type = "u32" -> AndThen(from_utf8(bytes), parse_u32)
      [] type = "u16" -> AndThen(from_utf8(bytes), parse_u16)
      [] type = "u8" -> AndThen(from_utf8(bytes), parse_u8)
      [] type = "bool" -> AndThen(from_utf8(bytes), parse_bool)
      [] type = "Charset" -> AndThen(from_utf8(bytes), LAMBDA s : Ok(Charset_from(s)))
      [] type = "Padding" -> AndThen(from_utf8(bytes), LAMBDA s : parse_array(s, 4))
      [] type = "Spacing" -> AndThen(from_utf8(bytes), LAMBDA s : parse_array(s, 2))
      [] type = "Packing" ->
           AndThen(AndThen(from_utf8(bytes), parse_u8), Packing_try_from)
      [] type = "Chnl" ->
           AndThen(AndThen(from_utf8(bytes), parse_u8), Chnl_try_from)

(***************************************************************************)
(* Load (builder/mod.rs, implement_load!): an object is read from the      *)
(* attributes of one line.  A table row is (type, id, key, field).         *)
(***************************************************************************)
Row(type, id, key, field) == [type |-> type, id |-> id, key |-> key, field |-> field]

CharKeys ==
    {Row("u32", 0, Lit_id, "id"), Row("u16", 1, Lit_x, "x"),
     Row("u16", 2, Lit_y, "y"), Row("u16", 3, Lit_width, "width"),
     Row("u16", 4, Lit_height, "height"), Row("i16", 5, Lit_xoffset, "xoffset"),
     Row("i16", 6, Lit_yoffset, "yoffset"), Row("i16", 8, Lit_xadvance, "xadvance"),
     Row("u8", 9, Lit_page, "page"), Row("Chnl", 10, Lit_chnl, "chnl")}

CommonKeys ==
    {Row("u16", 0, Lit_lineHeight, "line_height"), Row("u16", 1, Lit_base, "base"),
     Row("u16", 2, Lit_scaleW, "scale_w"), Row("u16", 3, Lit_scaleH, "scale_h"),
     Row("u16", 4, Lit_pages, "pages"), Row("bool", 5, Lit_packed, "packed"),
     Row("Packing", 6, Lit_alphaChnl, "alpha_chnl"),
     Row("Packing", 7, Lit_redChnl, "red_chnl"),
     Row("Packing", 8, Lit_greenChnl, "green_chnl"),
     Row("Packing", 9, Lit_blueChnl, "blue_chnl")}

CountKeys == {Row("u32", 0, Lit_count, "count")}

InfoKeys ==
    {Row("String", 0, Lit_face, "face"), Row("i16", 1, Lit_size, "size"),
     Row("bool", 2, Lit_bold, "bold"), Row("bool", 3, Lit_italic, "italic"),
     Row("Charset", 4, Lit_charset, "charset"),
     Row("bool", 5, Lit_unicode, "unicode"),
     Row("u16", 6, Lit_stretchH, "stretch_h"), Row("bool", 7, Lit_smooth, "smooth"),
     Row("u8", 8, Lit_aa, "aa"), Row("Padding", 9, Lit_padding, "padding"),
     Row("Spacing", 10, Lit_spacing, "spacing"),
     Row("u8", 11, Lit_outline, "outline")}

KerningKeys ==
    {Row("u32", 0, Lit_first, "first"), Row("u32", 1, Lit_second, "second"),
     Row("i16", 2, Lit_amount, "amount")}

PageKeys == {Row("u16", 0, Lit_id, "id"), Row("String", 1, Lit_file, "file")}

\* Default::default() of the loaded objects (font.rs).
Info_default ==
    [face |-> <<>>, size |-> 0, bold |-> FALSE, italic |-> FALSE,
     charset |-> CharsetTagged(0), unicode |-> FALSE, stretch_h |-> 0,
     smooth |-> FALSE, aa |-> 0, padding |-> <<0, 0, 0, 0>>,
     spacing |-> <<0, 0>>, outline |-> 0]

Common_default ==
    [line_height |-> 0, base |-> 0, scale_w |-> 0, scale_h |-> 0, pages |-> 0,
     packed |-> FALSE, alpha_chnl |-> 0, red_chnl |-> 0, green_chnl |-> 0,
     blue_chnl |-> 0]

Char_default ==
    [id |-> 0, x |-> 0, y |-> 0, width |-> 0, height |-> 0, xoffset |-> 0,
     yoffset |-> 0, xadvance |-> 0, page |-> 0, chnl |-> 15]

Kerning_default == [first |-> 0, second |-> 0, amount |-> 0]

Page_default == [id |-> 0, file |-> <<>>]

Count_default == [count |-> 0]

\* err.to_string(): what went wrong with a value.
ParseError_to_string(e) == IF e.detail = "" THEN e.kind ELSE e.detail

\* The body of load(): one attribute per round until the line ends.
RECURSIVE load_loop(_, _, _, _)
load_loop(table, t, block, bit_mask) ==
    LET parsed(a, attr, row, v) ==
            IF is_err(v)
            THEN [t |-> a.t,
                  r |-> Err(ErrorEntity("Parse", row.key,
                                        ParseError_to_string(v.err), attr.line))]
            ELSE load_loop(table, a.t, [block EXCEPT ![row.field] = v.val[1]],
                           BitField_set(bit_mask, row.id, TRUE))
        matched(a, attr, row) ==
            IF BitField_get(bit_mask, row.id)
            THEN [t |-> a.t,
                  r |-> Err(ErrorEntity("DuplicateKey", row.key, "", attr.line))]
            ELSE parsed(a, attr, row, parse_bytes(row.type, attr.value))
        keyed(a, attr) ==
            IF ~\E e \in table : e.key = attr.key
            THEN [t |-> a.t,
                  r |-> IF is_err(from_utf8(attr.key))
                        THEN Err(ErrorEntity("Parse", Lit_key, "Utf8Error",
                                             attr.line))
                        ELSE Err(ErrorEntity("InvalidKey", attr.key, "", attr.line))]
            ELSE matched(a, attr, CHOOSE e \in table : e.key = attr.key)
        round(a) ==
            IF is_err(a.r) THEN a
            ELSE IF is_none(a.r.val[1]) THEN [t |-> a.t, r |-> Ok(block)]
            ELSE keyed(a, a.r.val[1][1])
    IN round(next_attribute(t))

load(table, default, t) == load_loop(table, t, default, 0)

\* The *_attributes methods of FontBuilder: load the object, then call the
\* setter.  They return the builder, the tokenizer and the result.
with_loaded(l, b, F(_)) ==
    IF is_err(l.r) THEN [b |-> b, t |-> l.t, r |-> l.r]
    ELSE [b |-> F(l.r.val[1]).b, t |-> l.t, r |-> F(l.r.val[1]).r]

set_info_attributes(b, line, t) ==
    with_loaded(load(InfoKeys, Info_default, t), b,
                LAMBDA info : set_info(b, line, info))

set_common_attributes(b, line, t) ==
    with_loaded(load(CommonKeys, Common_default, t), b,
                LAMBDA common : set_common(b, line, common))

add_page_attributes(b, t) ==
    with_loaded(load(PageKeys, Page_default, t), b, LAMBDA page : add_page(b, page))

add_char_attributes(b, t) ==
    with_loaded(load(CharKeys, Char_default, t), b, LAMBDA char : add_char(b, char))

set_char_count_attributes(b, line, t) ==
    with_loaded(load(CountKeys, Count_default, t), b,
                LAMBDA c : set_char_count(b, line, c.count))

set_kerning_count_attributes(b, line, t) ==
    with_loaded(load(CountKeys, Count_default, t), b,
                LAMBDA c : set_kerning_count(b, line, c.count))

add_kerning_attributes(b, t) ==
    with_loaded(load(KerningKeys, Kerning_default, t), b,
                LAMBDA kerning : add_kerning(b, kerning))

(***************************************************************************)
(* Text export (text/store.rs).                                            *)
(***************************************************************************)
\* check_value: '\x00'..='\x1F' | '"' | '\x7F' cannot be written.
check_value(value) ==
    IF \E i \in 1..Len(value) : is_control(value[i]) \/ value[i] = QT
    THEN Err(Error("UnsupportedValueEncoding"))
    ELSE Ok(value)

RECURSIVE dec_digits(_)
dec_digits(n) ==
    IF n < 10 THEN <<ZERO + n>>
    ELSE Append(dec_digits(n \div 10), ZERO + (n % 10))

\* Display of an integer.
to_string(n) == IF n < 0 THEN <<MINUS>> \o dec_digits(0 - n) ELSE dec_digits(n)

\* {:<width}: left aligned, filled with spaces up to width.
to_string_padded(n, width) ==
    IF Len(to_string(n)) >= width THEN to_string(n)
    ELSE to_string(n) \o [i \in 1..(width - Len(to_string(n))) |-> SP]

bool_as_u32(v) == IF v THEN 1 ELSE 0

\* Display for Charset (charset.rs).
Charset_to_string_names_only(charset) ==
    IF charset.tag = "Null" THEN <<>>
    ELSE IF charset.tag = "Undefined" THEN charset.s
    ELSE IF \E n \in CharsetNames : n[1] = charset.u
    THEN (CHOOSE n \in CharsetNames : n[1] = charset.u)[2]
    ELSE <<>>

Charset_to_string(charset) ==
    IF charset.tag = "Null" THEN <<>>
    ELSE IF charset.tag = "Undefined" THEN charset.s
    ELSE IF \E n \in CharsetNames : n[1] = charset.u
    THEN (CHOOSE n \in CharsetNames : n[1] = charset.u)[2]
    ELSE to_string(charset.u)

\* " key=value" and " key="value"".
attr(key, value) == <<SP>> \o key \o <<EQ>> \o value
attr_qt(key, value) == <<SP>> \o key \o <<EQ, QT>> \o value \o <<QT>>

\* The line write! formats for an Info whose face passed check_value.
Info_line(info, face) ==
    Lit_info \o attr_qt(Lit_face, face)
        \o attr(Lit_size, to_string(info.size))
        \o attr(Lit_bold, to_string(bool_as_u32(info.bold)))
        \o attr(Lit_italic, to_string(bool_as_u32(info.italic)))
        \o attr_qt(Lit_charset, Charset_to_string(info.charset))
        \o attr(Lit_unicode, to_string(bool_as_u32(info.unicode)))
        \o attr(Lit_stretchH, to_string(info.stretch_h))
        \o attr(Lit_smooth, to_string(bool_as_u32(info.smooth)))
        \o attr(Lit_aa, to_string(info.aa))
        \o attr(Lit_padding,
                to_string(info.padding[1]) \o <<COMMA>>
                \o to_string(info.padding[2]) \o <<COMMA>>
                \o to_string(info.padding[3]) \o <<COMMA>>
                \o to_string(info.padding[4]))
        \o attr(Lit_spacing,
                to_string(info.spacing[1]) \o <<COMMA>> \o to_string(info.spacing[2]))
        \o attr(Lit_outline, to_string(info.outline))
        \o <<CR, LF>>

Info_store(info) ==
    AndThen(check_value(info.face), LAMBDA face : Ok(Info_line(info, face)))

Common_store(common) ==
    Lit_common \o attr(Lit_lineHeight, to_string(common.line_height))
        \o attr(Lit_base, to_string(common.base))
        \o attr(Lit_scaleW, to_string(common.scale_w))
        \o attr(Lit_scaleH, to_string(common.scale_h))
        \o attr(Lit_pages, to_string(common.pages))
        \o attr(Lit_packed, to_string(bool_as_u32(common.packed)))
        \o attr(Lit_alphaChnl, to_string(common.alpha_chnl))
        \o attr(Lit_redChnl, to_string(common.red_chnl))
        \o attr(Lit_greenChnl, to_string(common.green_chnl))
        \o attr(Lit_blueChnl, to_string(common.blue_chnl))
        \o <<CR, LF>>

Char_store(char) ==
    Lit_char \o attr(Lit_id, to_string_padded(char.id, 4))
        \o attr(Lit_x, to_string_padded(char.x, 5))
        \o attr(Lit_y, to_string_padded(char.y, 5))
        \o attr(Lit_width, to_string_padded(char.width, 5))
        \o attr(Lit_height, to_string_padded(char.height, 5))
        \o attr(Lit_xoffset, to_string_padded(char.xoffset, 5))
        \o attr(Lit_yoffset, to_string_padded(char.yoffset, 5))
        \o attr(Lit_xadvance, to_string_padded(char.xadvance, 5))
        \o attr(Lit_page, to_string_padded(char.page, 2))
        \o attr(Lit_chnl, to_string_padded(char.chnl, 2))
        \o <<CR, LF>>

Kerning_store(kerning) ==
    Lit_kerning \o attr(Lit_first, to_string_padded(kerning.first, 3))
        \o attr(Lit_second, to_string_padded(kerning.second, 3))
        \o attr(Lit_amount, to_string_padded(kerning.amount, 4))
        \o <<CR, LF>>

Page_line(i, page) ==
    Lit_page \o attr(Lit_id, to_string(i)) \o attr_qt(Lit_file, page) \o <<CR, LF>>

\* StoreFnt for Font, lines 91-93: the pages, numbered from 0.
RECURSIVE Pages_store(_, _, _)
Pages_store(pages, i, dst) ==
    IF i >= Len(pages) THEN Ok(dst)
    ELSE AndThen(check_value(pages[i + 1]), LAMBDA page :
           Pages_store(pages, i + 1, dst \o Page_line(i, page)))

Count_line(tag_bytes, n) == tag_bytes \o attr(Lit_count, to_string(n)) \o <<CR, LF>>

RECURSIVE store_all(_, _, _)
store_all(items, store(_), dst) ==
    IF items = <<>> THEN dst
    ELSE store_all(Tail(items), store, dst \o store(Head(items)))

text_to_vec(font) ==
    AndThen(Info_store(font.info), LAMBDA i :
    AndThen(Pages_store(font.pages, 0, i \o Common_store(font.common)), LAMBDA p :
      Ok(store_all(font.kernings, Kerning_store,
           store_all(font.chars, Char_store,
                     p \o Count_line(Lit_chars, Len(font.chars)))
           \o Count_line(Lit_kernings, Len(font.kernings))))))

(***************************************************************************)
(* Text import (text/load.rs).  One round of load_bytes' loop reads a tag  *)
(* and hands its line to the builder; done tells that the loop has ended.  *)
(***************************************************************************)
FontBuilderText_tag(b, t, tg) ==
    CASE tg.tag = Lit_info -> set_info_attributes(b, tg.line, t)
      [] tg.tag = Lit_common -> set_common_attributes(b, tg.line, t)
      [] tg.tag = Lit_page -> add_page_attributes(b, t)
      [] tg.tag = Lit_chars -> set_char_count_attributes(b, tg.line, t)
      [] tg.tag = Lit_char -> add_char_attributes(b, t)
      [] tg.tag = Lit_kernings -> set_kerning_count_attributes(b, tg.line, t)
      [] tg.tag = Lit_kerning -> add_kerning_attributes(b, t)
      [] OTHER ->
           [b |-> b, t |-> t,
            r |-> IF is_err(from_utf8(tg.tag))
                  THEN Err(ErrorEntity("Parse", Lit_tag, "Utf8Error", Some(t.line)))
                  ELSE Err(ErrorEntity("InvalidTag", tg.tag, "", Some(t.line)))]

FontBuilderText_next(b, t) ==
    LET handled(o) == [b |-> o.b, t |-> o.t, r |-> o.r, done |-> is_err(o.r)]
        tagged(n) ==
            IF is_err(n.r) THEN [b |-> b, t |-> n.t, r |-> n.r, done |-> TRUE]
            ELSE IF is_none(n.r.val[1])
            THEN [b |-> b, t |-> n.t, r |-> OkUnit, done |-> TRUE]
            ELSE handled(FontBuilderText_tag(b, n.t, n.r.val[1][1]))
    IN tagged(next_tag(t))

(***************************************************************************)
(* Sample data.  A profile p selects the numeric fields of a record:       *)
(* 0 gives the Default values, 1 the values of tests::small, 2 extremes of *)
(* each field's integer type.                                              *)
(***************************************************************************)
Profiles == 0..2

Pick(p, a, b, c) == IF p = 0 THEN a ELSE IF p = 1 THEN b ELSE c

InfoRec(face, charset, unicode, p) ==
    [face |-> face,
     size |-> Pick(p, 0, 32, -32768),
     bold |-> Pick(p, FALSE, FALSE, TRUE),
     italic |-> Pick(p, FALSE, FALSE, TRUE),
     charset |-> charset,
     unicode |-> unicode,
     stretch_h |-> Pick(p, 0, 100, 65535),
     smooth |-> Pick(p, FALSE, TRUE, FALSE),
     aa |-> Pick(p, 0, 4, 255),
     padding |-> Pick(p, <<0, 0, 0, 0>>, <<1, 2, 3, 4>>, <<255, 0, 10, 9>>),
     spacing |-> Pick(p, <<0, 0>>, <<5, 6>>, <<0, 255>>),
     outline |-> Pick(p, 0, 7, 255)]

\* Packing is repr(u8): Glyph = 0 .. One = 4.
CommonRec(pages, p) ==
    [line_height |-> Pick(p, 0, 32, 65535),
     base |-> Pick(p, 0, 24, 256),
     scale_w |-> Pick(p, 0, 1024, 255),
     scale_h |-> Pick(p, 0, 2048, 1),
     pages |-> pages,
     packed |-> Pick(p, FALSE, FALSE, TRUE),
     alpha_chnl |-> Pick(p, 0, 0, 4),
     red_chnl |-> Pick(p, 0, 2, 3),
     green_chnl |-> Pick(p, 0, 4, 1),
     blue_chnl |-> Pick(p, 0, 3, 2)]

\* Chnl::default() is ALL (15).
CharRec(id, page, p) ==
    [id |-> id,
     x |-> Pick(p, 0, 281, 65535),
     y |-> Pick(p, 0, 9, 256),
     width |-> Pick(p, 0, 4, 10),
     height |-> Pick(p, 0, 7, 13),
     xoffset |-> Pick(p, 0, 2, -1),
     yoffset |-> Pick(p, 0, 24, -32768),
     xadvance |-> Pick(p, 0, 8, 32767),
     page |-> page,
     chnl |-> Pick(p, 15, 4, 0)]

KerningRec(first, second, amount) ==
    [first |-> first, second |-> second, amount |-> amount]

PageRec(id, file) == [id |-> id, file |-> file]

\* "a" and a name holding the control character US.
FileVals == {<<97>>, <<97, US>>}

InfoVals ==
    {InfoRec(<<97>>, CharsetNull, TRUE, 1),
     InfoRec(<<US>>, CharsetTagged(0), FALSE, 0)}

CommonVals == {CommonRec(n, 1) : n \in 0..1}

CharVals == {CharRec(10, 0, 1)}

KerningVals == {KerningRec(10, 32, -2)}

SettingsVals == {s \in LoadSettings : ~s.ignore_invalid_tags}

\* The line a caller passes for error reporting: none, or line 1.
LineVals == {None, Some(1)}

(***************************************************************************)
(* Sample fonts for the codecs.                                            *)
(***************************************************************************)
\* "a", "", "a b", and faces holding US, a double quote or NUL.
FaceVals == {<<97>>, <<>>, <<97, SP, 98>>, <<US>>, <<QT>>, <<NUL>>}

\* Charset and unicode flag: every variant, canonical and numeric tags, and
\* Undefined labels that read like other variants or hold special bytes.
Coding(charset, unicode) == [charset |-> charset, unicode |-> unicode]

CodingVals ==
    {Coding(CharsetNull, TRUE), Coding(CharsetNull, FALSE),
     Coding(CharsetTagged(0), FALSE), Coding(CharsetTagged(129), FALSE),
     Coding(CharsetTagged(7), FALSE), Coding(CharsetTagged(0), TRUE),
     Coding(CharsetUndefined(<<120>>), FALSE),
     Coding(CharsetUndefined(<<ZERO + 7>>), FALSE),
     Coding(CharsetUndefined(Lit_ANSI), FALSE),
     Coding(CharsetUndefined(<<>>), FALSE),
     Coding(CharsetUndefined(<<97, US>>), FALSE),
     Coding(CharsetUndefined(<<QT>>), FALSE)}

\* "a", "bc" and a name holding US.
PageNames == {<<97>>, <<98, 99>>, <<97, US>>}

PageLists == UNION {[1..n -> PageNames] : n \in 0..MaxPages}

CharSeq(n, p) == [i \in 1..n |-> CharRec(Pick(p, 0, 9 + i, 2147483647), 0, p)]

KerningSeq(n, p) ==
    [i \in 1..n |-> KerningRec(Pick(p, 0, i, 2147483647), Pick(p, 0, 32, 1),
                               Pick(p, 0, 0 - i, -32768))]

FontVals ==
    {Font_new(InfoRec(face, c.charset, c.unicode, 1), CommonRec(1, 1), <<<<97>>>>,
              CharSeq(1, 1), KerningSeq(1, 1)) : face \in FaceVals, c \in CodingVals}
    \cup
    {Font_new(InfoRec(<<97>>, CharsetTagged(0), FALSE, 1), CommonRec(n, 1), pages,
              <<>>, <<>>) : n \in 0..MaxPages, pages \in PageLists}
    \cup
    {Font_new(InfoRec(<<97>>, CharsetNull, TRUE, p), CommonRec(0, p), <<>>,
              CharSeq(nc, p), KerningSeq(nk, p)) :
       p \in Profiles, nc \in 0..MaxChars, nk \in 0..MaxKernings}

\* The text file of a font as a writer that does not check its strings
\* lays it out: the input files of the loader tests.
TextDoc(font) ==
    store_all(font.kernings, Kerning_store,
      store_all(font.chars, Char_store,
        store_all([i \in 1..Len(font.pages) |-> Page_line(i - 1, font.pages[i])],
                  LAMBDA l : l,
                  Info_line(font.info, font.info.face) \o Common_store(font.common))
        \o Count_line(Lit_chars, Len(font.chars)))
      \o Count_line(Lit_kernings, Len(font.kernings)))

(***************************************************************************)
(* Variables the specifications below leave at rest.                       *)
(***************************************************************************)
NoBinary == [src |-> <<>>, version |-> 0, info |-> None, common |-> None,
             pages |-> <<>>, chars |-> <<>>, kernings |-> <<>>]

NoTokens == [bytes |-> <<>>, index |-> 0, line |-> 1]

NoCall == [op |-> "new", arg |-> 0, succeeded |-> {}, accepted |-> <<>>]

(***************************************************************************)
(* Spec: a client drives one FontBuilder through any sequence of setter    *)
(* calls and then consumes it with build().  call records the last call,   *)
(* the setters that have succeeded so far and the pages passed to the      *)
(* add_page calls that returned Ok; ret is what the last call returned.    *)
(***************************************************************************)
Init ==
    /\ settings \in SettingsVals
    /\ builder = FontBuilder_new(settings)
    /\ ret = OkUnit
    /\ call = NoCall
    /\ binb = NoBinary
    /\ bret = OkUnit
    /\ src_font = None
    /\ encoded = <<>>
    /\ ta = NoTokens
    /\ pc = "building"

Rest == UNCHANGED <<settings, binb, bret, src_font, encoded, ta>>

Called(op, arg, o) ==
    /\ builder' = o.b
    /\ ret' = o.r
    /\ call' = [op |-> op, arg |-> arg,
                succeeded |-> IF is_ok(o.r) THEN call.succeeded \cup {op}
                              ELSE call.succeeded,
                accepted |-> IF is_ok(o.r) /\ op = "add_page"
                             THEN Append(call.accepted, arg)
                             ELSE call.accepted]
    /\ pc' = pc
    /\ Rest

CallSetInfo ==
    /\ pc = "building"
    /\ \E info \in InfoVals, line \in LineVals :
         Called("set_info", info, set_info(builder, line, info))

CallSetCommon ==
    /\ pc = "building"
    /\ \E common \in CommonVals, line \in LineVals :
         Called("set_common", common, set_common(builder, line, common))

CallAddPage ==
    /\ pc = "building"
    /\ Len(builder.pages) < MaxPages
    /\ \E id \in 0..MaxPages, file \in FileVals :
         Called("add_page", PageRec(id, file), add_page(builder, PageRec(id, file)))

CallAddChar ==
    /\ pc = "building"
    /\ Len(builder.chars) < MaxChars
    /\ \E char \in CharVals : Called("add_char", char, add_char(builder, char))

CallSetCharCount ==
    /\ pc = "building"
    /\ \E n \in 0..MaxCount, line \in LineVals :
         Called("set_char_count", n, set_char_count(builder, line, n))

CallAddKerning ==
    /\ pc = "building"
    /\ Len(builder.kernings) < MaxKernings
    /\ \E kerning \in KerningVals :
         Called("add_kerning", kerning, add_kerning(builder, kerning))

CallSetKerningCount ==
    /\ pc = "building"
    /\ \E n \in 0..MaxCount, line \in LineVals :
         Called("set_kerning_count", n, set_kerning_count(builder, line, n))

\* build(mut self) consumes the builder: no call follows it.
CallBuild ==
    /\ pc = "building"
    /\ ret' = FontBuilder_build(builder)
    /\ call' = [call EXCEPT !.op = "build", !.arg = 0]
    /\ pc' = "built"
    /\ UNCHANGED builder
    /\ Rest

Next ==
    \/ CallSetInfo
    \/ CallSetCommon
    \/ CallAddPage
    \/ CallAddChar
    \/ CallSetCharCount
    \/ CallAddKerning
    \/ CallSetKerningCount
    \/ CallBuild

Spec == Init /\ [][Next]_vars

(***************************************************************************)
(* Properties of the FontBuilder, checked under Spec.                      *)
(***************************************************************************)

\* C4: add_page(id, file) returns Ok only when id equals the number of pages
\* accumulated so far and otherwise fails with BrokenPageList leaving the
\* page list as it was; hence the accumulated pages are exactly the files of
\* the accepted calls, whose ids are 0, 1, ..., n-1 in arrival order.
C4_AddPageSequential ==
    /\ Len(builder.pages) = Len(call.accepted)
    /\ \A i \in 1..Len(call.accepted) :
         /\ call.accepted[i].id = i - 1
         /\ builder.pages[i] = call.accepted[i].file
    /\ (call.op = "add_page" /\ is_err(ret)) =>
         /\ ret.err.kind = "BrokenPageList"
         /\ call.arg.id # Len(builder.pages)
    /\ (call.op = "add_page" /\ is_ok(ret)) =>
         /\ call.arg.id = Len(builder.pages) - 1
         /\ call.accepted[Len(call.accepted)] = call.arg

\* Pages with ids [0, 2]: the call with id 2 has just failed.
C4_Witness ==
    /\ call.op = "add_page"
    /\ call.arg.id = 2
    /\ Len(builder.pages) = 1
    /\ ret.err.kind = "BrokenPageList"

SetterField(b, op) ==
    CASE op = "set_info" -> b.info
      [] op = "set_common" -> b.common
      [] op = "set_char_count" -> b.char_count
      [] op = "set_kerning_count" -> b.kerning_count

DuplicateKind(op) ==
    CASE op = "set_info" -> "DuplicateInfoBlock"
      [] op = "set_common" -> "DuplicateCommonBlock"
      [] op = "set_char_count" -> "DuplicateCharCount"
      [] op = "set_kerning_count" -> "DuplicateKerningCount"

OnceSetters == {"set_info", "set_common", "set_char_count", "set_kerning_count"}

\* C5: each of set_info, set_common, set_char_count and set_kerning_count
\* succeeds at most once: the first call stores its value, every later call
\* of the same setter fails with its Duplicate* error and changes nothing,
\* and no other call changes a value once stored.
C5_SettersOnce ==
    [][/\ \A op \in OnceSetters :
            /\ is_some(SetterField(builder, op)) =>
                 SetterField(builder', op) = SetterField(builder, op)
            /\ (pc = "building" /\ call'.op = op) =>
                 IF is_none(SetterField(builder, op))
                 THEN /\ is_ok(ret')
                      /\ SetterField(builder', op) = Some(call'.arg)
                      /\ \A o \in OnceSetters \ {op} :
                           SetterField(builder', o) = SetterField(builder, o)
                      /\ builder'.pages = builder.pages
                      /\ builder'.chars = builder.chars
                      /\ builder'.kernings = builder.kernings
                 ELSE /\ ret'.err.kind = DuplicateKind(op)
                      /\ builder' = builder]_vars

\* A second set_info call, with a different Info, has just been refused.
C5_Witness ==
    /\ call.op = "set_info"
    /\ ret.err = ErrorAt("DuplicateInfoBlock", "", Some(1))
    /\ is_some(builder.info)
    /\ builder.info[1] # call.arg

CountMismatch(count, items) == is_some(count) /\ count[1] # Len(items)

InitCodec ==
    /\ settings \in SettingsVals
    /\ src_font \in {Some(font) : font \in FontVals}
    /\ builder = FontBuilder_new(settings)
    /\ ret = OkUnit
    /\ call = [op |-> "start", arg |-> "none", succeeded |-> {}, accepted |-> <<>>]
    /\ binb = NoBinary
    /\ bret = OkUnit
    /\ encoded = <<>>
    /\ ta = NoTokens
    /\ pc = "start"

Stage(op, arg, r) ==
    call' = [call EXCEPT !.op = op, !.arg = arg,
                         !.succeeded = IF is_ok(r) THEN @ \cup {op} ELSE @]

BinStore ==
    /\ pc = "start"
    /\ LET r == binary_to_vec(src_font[1]) IN
         /\ encoded' = IF is_ok(r) THEN r.val[1] ELSE <<>>
         /\ bret' = IF is_ok(r) THEN OkUnit ELSE r
         /\ pc' = IF is_ok(r) THEN "bin_stored" ELSE "bin_done"
         /\ Stage("binary::to_vec", call.arg, r)
    /\ UNCHANGED <<settings, builder, ret, binb, src_font, ta>>

BinOpen ==
    /\ pc = "bin_stored"
    /\ LET r == binary_open(encoded) IN
         /\ binb' = IF is_ok(r) THEN r.val[1] ELSE binb
         /\ bret' = IF is_ok(r) THEN OkUnit ELSE r
         /\ pc' = IF is_ok(r) THEN "bin_loading" ELSE "bin_done"
         /\ Stage("binary::open", call.arg, r)
    /\ UNCHANGED <<settings, builder, ret, src_font, encoded, ta>>

\* load(): while the source is not empty, next().
BinNext ==
    /\ pc = "bin_loading"
    /\ binb.src # <<>>
    /\ LET r == FontBuilderBinary_next(binb) IN
         /\ binb' = IF is_ok(r) THEN r.val[1] ELSE binb
         /\ bret' = IF is_ok(r) THEN OkUnit ELSE r
         /\ pc' = IF is_ok(r) THEN "bin_loading" ELSE "bin_done"
         /\ Stage("binary::next", call.arg, r)
    /\ UNCHANGED <<settings, builder, ret, src_font, encoded, ta>>

BinBuild ==
    /\ pc = "bin_loading"
    /\ binb.src = <<>>
    /\ bret' = FontBuilderBinary_build(binb)
    /\ pc' = "bin_done"
    /\ Stage("binary::from_bytes", call.arg, FontBuilderBinary_build(binb))
    /\ UNCHANGED <<settings, builder, ret, binb, src_font, encoded, ta>>

TextStore ==
    /\ pc = "bin_done"
    /\ LET r == text_to_vec(src_font[1]) IN
         /\ encoded' = IF is_ok(r) THEN r.val[1] ELSE <<>>
         /\ ret' = IF is_ok(r) THEN OkUnit ELSE r
         /\ pc' = IF is_ok(r) THEN "text_stored" ELSE "done"
         /\ Stage("text::to_vec", "text::to_vec", r)
    /\ UNCHANGED <<settings, builder, binb, bret, src_font, ta>>

TextWrite ==
    /\ pc = "bin_done"
    /\ encoded' = TextDoc(src_font[1])
    /\ pc' = "text_stored"
    /\ Stage("write", "writer", OkUnit)
    /\ UNCHANGED <<settings, builder, ret, binb, bret, src_font, ta>>

TextOpen ==
    /\ pc = "text_stored"
    /\ builder' = FontBuilder_new(settings)
    /\ ta' = TaggedAttributes_from_bytes(encoded)
    /\ pc' = "text_loading"
    /\ Stage("text::open", call.arg, OkUnit)
    /\ UNCHANGED <<settings, ret, binb, bret, src_font, encoded>>

\* load_bytes: one round of the loop over the tags.
TextNext ==
    /\ pc = "text_loading"
    /\ \E o \in {FontBuilderText_next(builder, ta)} :
         /\ builder' = o.b
         /\ ta' = o.t
         /\ ret' = o.r
         /\ pc' = IF ~o.done THEN "text_loading"
                  ELSE IF is_ok(o.r) THEN "text_loaded" ELSE "done"
         /\ Stage("text::next", call.arg, o.r)
    /\ UNCHANGED <<settings, binb, bret, src_font, encoded>>

TextBuild ==
    /\ pc = "text_loaded"
    /\ ret' = FontBuilder_build(builder)
    /\ pc' = "done"
    /\ Stage("text::from_bytes", call.arg, FontBuilder_build(builder))
    /\ UNCHANGED <<settings, builder, binb, bret, src_font, encoded, ta>>

NextCodec ==
    \/ BinStore
    \/ BinOpen
    \/ BinNext
    \/ BinBuild
    \/ TextStore
    \/ TextWrite
    \/ TextOpen
    \/ TextNext
    \/ TextBuild

SpecCodec == InitCodec /\ [][NextCodec]_vars

(***************************************************************************)
(* Properties of the codecs, checked under SpecCodec.                      *)
(***************************************************************************)
StringsOf(font) == {font.info.face} \cup {font.pages[i] : i \in 1..Len(font.pages)}

PagesDeclared(font) == font.common.pages = Len(font.pages)

\* The binary half has ended: bret is its outcome.
BinaryDone == pc \notin {"start", "bin_stored", "bin_loading"}

BinaryRoundTrip ==
    /\ {"binary::to_vec", "binary::from_bytes"} \subseteq call.succeeded
    /\ is_ok(bret)
    /\ bret.val[1] = src_font[1]

\* The charset byte of the binary format can tell the charset: Null under
\* unicode, a Tagged value otherwise.
CharsetEncodable(info) ==
    IF info.unicode THEN info.charset = CharsetNull ELSE info.charset.tag = "Tagged"

CongruentPageNames(pages) ==
    \A i, j \in 1..Len(pages) : Len(pages[i]) = Len(pages[j])

\* C1 as stated: for every Font whose common.pages equals its number of
\* pages and whose face and page names hold no NUL and no control character,
\* binary::from_bytes(binary::to_vec(F)) succeeds and returns F.
C1_BinaryRoundTrip ==
    (/\ BinaryDone
     /\ PagesDeclared(src_font[1])
     /\ \A s \in StringsOf(src_font[1]) : check_string_ok(s))
      => BinaryRoundTrip

\* C1 amended: the round trip holds for the fonts of C1 whose charset the
\* format can tell (Null with unicode set, Tagged(u) with unicode clear) and
\* whose page names all have the same length in bytes.
C1_BinaryRoundTripEncodable ==
    (/\ BinaryDone
     /\ PagesDeclared(src_font[1])
     /\ \A s \in StringsOf(src_font[1]) : check_string_ok(s)
     /\ CharsetEncodable(src_font[1].info)
     /\ CongruentPageNames(src_font[1].pages))
      => BinaryRoundTrip

\* A unicode font with extreme field values, a char and a kerning pair has
\* come back from the binary codec unchanged.
C1_Witness ==
    /\ pc = "bin_done"
    /\ src_font[1].info.unicode
    /\ src_font[1].info.size = -32768
    /\ Len(src_font[1].chars) = 1
    /\ Len(src_font[1].kernings) = 1
    /\ BinaryRoundTrip

\* The text half has ended on the bytes text::to_vec wrote, or on its error.
TextExportDone == pc = "done" /\ call.arg = "text::to_vec"

TextRoundTrip ==
    /\ {"text::to_vec", "text::from_bytes"} \subseteq call.succeeded
    /\ is_ok(ret)
    /\ ret.val[1] = src_font[1]

\* A charset the text format gives back: Null, Tagged, or an Undefined label
\* without control characters or double quotes that From<&str> for Charset
\* reads as Undefined again.
CharsetLabelPlain(charset) ==
    charset.tag = "Undefined" =>
      /\ is_ok(check_value(charset.s))
      /\ Charset_from(charset.s) = charset

\* C2 as stated: for every Font whose common.pages equals its number of
\* pages and whose face and page names hold no control character and no
\* double quote, text::from_bytes(text::to_vec(F)) succeeds and returns F,
\* charset and the order of pages, chars and kernings included.
C2_TextRoundTrip ==
    (/\ TextExportDone
     /\ PagesDeclared(src_font[1])
     /\ \A s \in StringsOf(src_font[1]) : is_ok(check_value(s)))
      => TextRoundTrip

\* C2 amended: the round trip holds for the fonts of C2 whose charset is
\* Null, Tagged, or an Undefined label that holds no control character and
\* no double quote and is not the empty string, a charset name or a decimal
\* u8 (labels that are read back as Null or Tagged).
C2_TextRoundTripPlainLabel ==
    (/\ TextExportDone
     /\ PagesDeclared(src_font[1])
     /\ \A s \in StringsOf(src_font[1]) : is_ok(check_value(s))
     /\ CharsetLabelPlain(src_font[1].info.charset))
      => TextRoundTrip

\* A font with an Undefined charset label, a face with an inner space, a
\* page, a char and a kerning pair has come back from the text codec
\* unchanged.
C2_Witness ==
    /\ TextExportDone
    /\ src_font[1].info.charset.tag = "Undefined"
    /\ src_font[1].info.face = <<97, SP, 98>>
    /\ Len(src_font[1].pages) = 1
    /\ Len(src_font[1].chars) = 1
    /\ Len(src_font[1].kernings) = 1
    /\ TextRoundTrip

\* Bytes a quoted text value cannot hold, and the byte that ends a string
\* of the binary format.
is_portable(s) == \A i \in 1..Len(s) : s[i] \notin {NUL, QT, CR, LF}

\* Both loaders have been given the font of src_font: binary::to_vec wrote
\* its binary file, the text file was written from it, and its charset and
\* strings are ones both formats can hold.
SameLogicalData ==
    /\ pc = "done"
    /\ "binary::to_vec" \in call.succeeded
    /\ call.op # "text::to_vec"
    /\ CharsetEncodable(src_font[1].info)
    /\ \A s \in StringsOf(src_font[1]) : is_portable(s)

\* C3: given the same logical data and the same LoadSettings, the binary
\* loader and the text loader either both succeed with equal Fonts or both
\* fail with the same error kind.
C3_LoadersAgree ==
    SameLogicalData =>
      \/ is_ok(bret) /\ is_ok(ret) /\ bret.val[1] = ret.val[1]
      \/ is_err(bret) /\ is_err(ret) /\ bret.err.kind = ret.err.kind

\* The binary loader has read the whole file and called build().
BinaryBuilt == BinaryDone /\ "binary::open" \in call.succeeded /\ binb.src = <<>>

\* The text loader has read the whole file and called build().
TextBuilt == pc = "done" /\ call.op = "text::from_bytes"

\* C8: when the pages a loader accumulated differ in number from
\* common.pages, finalizing fails with InvalidPageCount under the default
\* settings and succeeds with ignore_counts set (the strings being safe or
\* allowed), for the text loader and for the binary loader alike.
C8_PageCount ==
    /\ (/\ TextBuilt
        /\ is_some(builder.info) /\ is_some(builder.common)
        /\ builder.common[1].pages # Len(builder.pages))
         => /\ settings = LoadSettings_default => ret.err.kind = "InvalidPageCount"
            /\ (settings.ignore_counts /\ is_none(string_error(builder, builder.info[1])))
                 => is_ok(ret)
    /\ (/\ BinaryBuilt
        /\ is_some(binb.info) /\ is_some(binb.common)
        /\ binb.common[1].pages # Len(binb.pages))
         => /\ settings = LoadSettings_default => bret.err.kind = "InvalidPageCount"
            /\ (/\ settings.ignore_counts
                /\ \/ settings.allow_string_control_characters
                   \/ \A s \in StringsOf(src_font[1]) : check_string_ok(s))
                 => is_ok(bret)

\* The strings a loader has read hold an ASCII control character.
UnsafeStrings(info, pages) ==
    \/ ~check_string_ok(info[1].face)
    \/ \E i \in 1..Len(pages) : ~check_string_ok(pages[i])

\* C9: a load, from text or from binary, that is sound but for a control
\* character in the face or in a page name fails with UnsafeValueString
\* under the default settings, and with allow_string_control_characters set
\* it succeeds with the strings as they are in the file.
C9_ControlCharacters ==
    /\ (/\ TextBuilt
        /\ is_some(builder.info) /\ is_some(builder.common)
        /\ builder.common[1].pages = Len(builder.pages)
        /\ UnsafeStrings(builder.info, builder.pages))
         => /\ settings = LoadSettings_default => ret.err.kind = "UnsafeValueString"
            /\ settings.allow_string_control_characters =>
                 /\ is_ok(ret)
                 /\ ret.val[1].info.face = src_font[1].info.face
                 /\ ret.val[1].pages = src_font[1].pages
    /\ (/\ BinaryBuilt
        /\ is_some(binb.info) /\ is_some(binb.common)
        /\ binb.common[1].pages = Len(binb.pages)
        /\ UnsafeStrings(binb.info, binb.pages))
         => /\ settings = LoadSettings_default => bret.err.kind = "UnsafeValueString"
            /\ settings.allow_string_control_characters =>
                 /\ is_ok(bret)
                 /\ bret.val[1].info.face = src_font[1].info.face
                 /\ bret.val[1].pages = src_font[1].pages

\* C10: under the default settings, loading a text font whose charset is an
\* Undefined label (not a charset name, not a number) that holds an ASCII
\* control character fails with UnsafeValueString.
C10_CharsetLabel ==
    (/\ TextBuilt
     /\ settings = LoadSettings_default
     /\ is_some(builder.info)
     /\ builder.info[1].charset.tag = "Undefined"
     /\ ~check_string_ok(builder.info[1].charset.s))
      => ret.err.kind = "UnsafeValueString"

(***************************************************************************)
(* SpecRefs: a client hands the parts of one font to a FontBuilder, in any *)
(* order, builds it, and then calls validate_references() on the Font it   *)
(* got.  src_font is the font handed over, ret what build() returned and   *)
(* bret what validate_references() returned.                               *)
(***************************************************************************)
\* Ids of chars: one that the sample kernings name twice, one they name once.
RefIds == {10, 32}

RefChars == {CharRec(id, page, 1) : id \in RefIds, page \in 0..MaxPages}

RefKernings == {KerningRec(first, second, -2) : first \in RefIds, second \in RefIds}

RefFontVals ==
    {Font_new(InfoRec(<<97>>, CharsetNull, TRUE, 1), CommonRec(np, 1),
              [i \in 1..np |-> <<97>>], chars, kernings) :
       np \in 0..MaxPages,
       chars \in UNION {[1..n -> RefChars] : n \in 0..MaxChars},
       kernings \in UNION {[1..n -> RefKernings] : n \in 0..MaxKernings}}

InitRefs ==
    /\ settings \in SettingsVals
    /\ src_font \in {Some(font) : font \in RefFontVals}
    /\ builder = FontBuilder_new(settings)
    /\ ret = OkUnit
    /\ call = NoCall
    /\ binb = NoBinary
    /\ bret = OkUnit
    /\ encoded = <<>>
    /\ ta = NoTokens
    /\ pc = "building"

Fed(op, arg, o) ==
    /\ pc = "building"
    /\ is_ok(o.r)
    /\ builder' = o.b
    /\ ret' = o.r
    /\ call' = [call EXCEPT !.op = op, !.arg = arg,
                            !.succeeded = call.succeeded \cup {op}]
    /\ UNCHANGED <<settings, binb, bret, src_font, encoded, ta, pc>>

FeedInfo ==
    /\ is_none(builder.info)
    /\ Fed("set_info", src_font[1].info, set_info(builder, None, src_font[1].info))

FeedCommon ==
    /\ is_none(builder.common)
    /\ Fed("set_common", src_font[1].common,
           set_common(builder, None, src_font[1].common))

FeedPage ==
    /\ Len(builder.pages) < Len(src_font[1].pages)
    /\ \E page \in {PageRec(Len(builder.pages),
                            src_font[1].pages[Len(builder.pages) + 1])} :
         Fed("add_page", page, add_page(builder, page))

FeedChar ==
    /\ Len(builder.chars) < Len(src_font[1].chars)
    /\ \E char \in {src_font[1].chars[Len(builder.chars) + 1]} :
         Fed("add_char", char, add_char(builder, char))

FeedKerning ==
    /\ Len(builder.kernings) < Len(src_font[1].kernings)
    /\ \E kerning \in {src_font[1].kernings[Len(builder.kernings) + 1]} :
         Fed("add_kerning", kerning, add_kerning(builder, kerning))

AllFed ==
    /\ is_some(builder.info)
    /\ is_some(builder.common)
    /\ Len(builder.pages) = Len(src_font[1].pages)
    /\ Len(builder.chars) = Len(src_font[1].chars)
    /\ Len(builder.kernings) = Len(src_font[1].kernings)

RefBuild ==
    /\ pc = "building"
    /\ AllFed
    /\ ret' = FontBuilder_build(builder)
    /\ call' = [call EXCEPT !.op = "build", !.arg = 0]
    /\ pc' = "built"
    /\ UNCHANGED <<settings, builder, binb, bret, src_font, encoded, ta>>

RefValidate ==
    /\ pc = "built"
    /\ is_ok(ret)
    /\ bret' = validate_references(ret.val[1])
    /\ call' = [call EXCEPT !.op = "validate_references", !.arg = 0]
    /\ pc' = "validated"
    /\ UNCHANGED <<settings, builder, ret, src_font, encoded, ta, binb>>

NextRefs ==
    \/ FeedInfo
    \/ FeedCommon
    \/ FeedPage
    \/ FeedChar
    \/ FeedKerning
    \/ RefBuild
    \/ RefValidate

SpecRefs == InitRefs /\ [][NextRefs]_vars

(***************************************************************************)
(* Properties of reference validation, checked under SpecRefs.             *)
(***************************************************************************)
DanglingPage(font) ==
    \E i \in 1..Len(font.chars) : font.chars[i].page >= Len(font.pages)

DanglingChar(font) ==
    \E i \in 1..Len(font.kernings) :
      \/ \A j \in 1..Len(font.chars) : font.chars[j].id # font.kernings[i].first
      \/ \A j \in 1..Len(font.chars) : font.chars[j].id # font.kernings[i].second

\* C11: build() performs no reference validation: the font builds whether
\* or not a char names an absent page or a kerning an absent char id.
\* validate_references() returns InvalidCharPage iff some char.page >=
\* pages.len(), otherwise InvalidKerningChar iff some kerning.first or
\* kerning.second equals no char.id, otherwise Ok.
C11_ReferenceValidation ==
    /\ pc = "built" => /\ is_ok(ret)
                       /\ ret.val[1] = src_font[1]
    /\ pc = "validated" =>
         bret.err.kind = IF DanglingPage(ret.val[1]) THEN "InvalidCharPage"
                         ELSE IF DanglingChar(ret.val[1]) THEN "InvalidKerningChar"
                         ELSE "Ok"

\* A font whose only char names page 1 while there is one page (page 0) was
\* built and then refused by validate_references().
C11_Witness ==
    /\ pc = "validated"
    /\ Len(ret.val[1].pages) = 1
    /\ Len(ret.val[1].chars) = 1
    /\ ret.val[1].chars[1].page = 1
    /\ bret.err.kind = "InvalidCharPage"

(***************************************************************************)
(* SpecBinary: binary::to_vec writes a font, the file is then damaged in   *)
(* one place or left as it is, and binary::from_bytes_ext reads it, one    *)
(* block per step.  call.arg tells whether the file was damaged.           *)
(***************************************************************************)
\* One page and nothing else; one page, a char and a kerning pair.
StreamFonts ==
    {Font_new(InfoRec(<<97>>, CharsetNull, TRUE, 1), CommonRec(1, 1), <<<<97>>>>,
              <<>>, <<>>),
     Font_new(InfoRec(<<97>>, CharsetTagged(0), FALSE, 1), CommonRec(1, 1),
              <<<<97>>>>, CharSeq(1, 1), KerningSeq(1, 1))}

\* The blocks of a well-formed file body, and a file made of blocks.
RECURSIVE Frames(_)
Frames(src) ==
    IF Len(src) < Block_PACK_LEN THEN <<>>
    ELSE <<[id |-> Block_unpack(src).id,
            payload |-> SubSeq(src, Block_PACK_LEN + 1,
                               Block_PACK_LEN + Block_unpack(src).len)]>>
         \o Frames(drop(src, Block_PACK_LEN + Block_unpack(src).len))

RECURSIVE Stream(_, _)
Stream(head, frames) ==
    IF frames = <<>> THEN head
    ELSE Stream(head \o Block_pack(frames[1].id, Len(frames[1].payload))
                     \o frames[1].payload,
                Tail(frames))

\* Block ids no block has.
ForeignIds == {0, 6, 255}

\* A byte appended to a payload: a NUL or not.
ExtraBytes == {0, 1}

\* Version bytes other than 3.
ForeignVersions == {0, 1, 2, 4, 255}

\* Bytes after the last block: fewer than a block header, and a header with
\* a foreign id.
TrailingBytes == {<<0>>, <<1, 0, 0, 0>>, <<0, 0, 0, 0, 0>>}

\* The files one damage away from a well-formed file: another version byte,
\* another first byte, a cut anywhere, one block with a foreign id, one
\* block whose payload is a byte longer or a byte shorter, or bytes after
\* the last block.
Damaged(bytes) ==
    LET frames == Frames(drop(bytes, Magic_PACK_LEN))
        head == take(bytes, Magic_PACK_LEN)
    IN {[bytes EXCEPT ![Magic_PACK_LEN] = v] : v \in ForeignVersions}
       \cup {[bytes EXCEPT ![1] = 88]}
       \cup {take(bytes, n) : n \in 0..(Len(bytes) - 1)}
       \cup {Stream(head, [frames EXCEPT ![k].id = id]) :
               k \in 1..Len(frames), id \in ForeignIds}
       \cup {Stream(head, [frames EXCEPT ![k].payload = @ \o <<extra>>]) :
               k \in 1..Len(frames), extra \in ExtraBytes}
       \cup {Stream(head, [frames EXCEPT ![k].payload = take(@, Len(@) - 1)]) :
               k \in 1..Len(frames)}
       \cup {bytes \o t : t \in TrailingBytes}

InitBinary ==
    /\ settings \in SettingsVals
    /\ src_font \in {Some(font) : font \in StreamFonts}
    /\ builder = FontBuilder_new(settings)
    /\ ret = OkUnit
    /\ call = [op |-> "start", arg |-> "none", succeeded |-> {}, accepted |-> <<>>]
    /\ binb = NoBinary
    /\ bret = OkUnit
    /\ encoded = <<>>
    /\ ta = NoTokens
    /\ pc = "start"

BinDamage ==
    /\ pc = "bin_stored"
    /\ call.arg = "none"
    /\ encoded' \in Damaged(encoded)
    /\ call' = [call EXCEPT !.op = "damage", !.arg = "damaged"]
    /\ UNCHANGED <<settings, builder, ret, binb, bret, src_font, ta, pc>>

NextBinary ==
    \/ BinStore
    \/ BinDamage
    \/ BinOpen
    \/ BinNext
    \/ BinBuild

SpecBinary == InitBinary /\ [][NextBinary]_vars

(***************************************************************************)
(* Properties of the binary loader, checked under SpecBinary.              *)
(***************************************************************************)
\* 'B', 'M', 'F'
Marker == <<66, 77, 70>>

MarkerOk(bytes) == Len(bytes) >= Magic_PACK_LEN /\ take(bytes, 3) = Marker

\* binary::from_bytes_ext has been entered.
BinaryEntered == pc \in {"bin_loading", "bin_done"} /\ call.op # "binary::to_vec"

\* C12: the loader goes on to the blocks only if the file starts with 'B',
\* 'M', 'F' and the version byte 3; with the marker right and another
\* version byte it fails with UnsupportedBinaryVersion carrying that byte,
\* no block having been read; binary::to_vec always starts its output with
\* the marker and the version byte 3.
C12_BinaryVersion ==
    /\ (BinaryEntered /\ "binary::open" \in call.succeeded)
         => MarkerOk(encoded) /\ encoded[Magic_PACK_LEN] = 3
    /\ (BinaryEntered /\ MarkerOk(encoded) /\ encoded[Magic_PACK_LEN] # 3)
         => /\ bret = Err(ErrorWith("UnsupportedBinaryVersion",
                                    encoded[Magic_PACK_LEN]))
            /\ binb = NoBinary
            /\ "binary::next" \notin call.succeeded
    /\ (pc = "bin_stored" /\ call.arg = "none")
         => take(encoded, Magic_PACK_LEN) = Marker \o <<3>>

\* A file with the marker and the version byte 0xFF has been refused.
C12_Witness ==
    /\ pc = "bin_done"
    /\ MarkerOk(encoded)
    /\ encoded[Magic_PACK_LEN] = 255
    /\ bret.err.kind = "UnsupportedBinaryVersion"
    /\ bret.err.specified = 255

\* The length a block header declares: bytes 2..5, little-endian.
DeclaredLen(src) == src[2] + 256 * src[3] + 65536 * src[4] + 16777216 * src[5]

\* The header or the payload of the next block is cut short.
ShortBlock(src) ==
    \/ Len(src) < 5
    \/ DeclaredLen(src) > Len(src) - 5

\* C13: a block is a 1-byte id, a 4-byte little-endian length and exactly
\* that many payload bytes: reading a block that was accepted moves the
\* loader past 5 + length bytes.  With fewer than 5 bytes left for the
\* header, or a declared length above the bytes that remain, reading the
\* block fails with the buffer underflow error and the load ends there,
\* without a Font.
C13_BlockFraming ==
    [][(pc = "bin_loading" /\ binb.src # <<>>) =>
         IF ShortBlock(binb.src)
         THEN /\ bret' = underflow
              /\ pc' = "bin_done"
              /\ binb' = binb
         ELSE pc' = "bin_loading" =>
                binb'.src = drop(binb.src, 5 + DeclaredLen(binb.src))]_vars

\* After at least one block was read, a block whose declared length exceeds
\* the bytes left has ended the load with the underflow error.
C13_Witness ==
    /\ pc = "bin_done"
    /\ "binary::next" \in call.succeeded
    /\ Len(binb.src) >= 5
    /\ DeclaredLen(binb.src) > Len(binb.src) - 5
    /\ bret = underflow

BlockIds == {INFO, COMMON, PAGES, CHARS, KERNING_PAIRS}

\* C14: a block whose id is none of Info, Common, Pages, Chars and
\* KerningPairs ends the load with InvalidBinaryBlock carrying that id as
\* soon as the loader reads it; it is never skipped, so a file that loaded
\* holds no such block.
C14_UnknownBlock ==
    /\ [][(/\ pc = "bin_loading"
           /\ binb.src # <<>>
           /\ ~ShortBlock(binb.src)
           /\ binb.src[1] \notin BlockIds)
            => /\ bret' = Err(ErrorWith("InvalidBinaryBlock", binb.src[1]))
               /\ pc' = "bin_done"
               /\ binb' = binb]_vars
    /\ []("binary::from_bytes" \in call.succeeded =>
            \A k \in 1..Len(Frames(drop(encoded, Magic_PACK_LEN))) :
              Frames(drop(encoded, Magic_PACK_LEN))[k].id \in BlockIds)

\* After the info block was read, a whole block with the id 255 has ended
\* the load.
C14_Witness ==
    /\ pc = "bin_done"
    /\ "binary::next" \in call.succeeded
    /\ ~ShortBlock(binb.src)
    /\ binb.src[1] = 255
    /\ bret = Err(ErrorWith("InvalidBinaryBlock", 255))

(***************************************************************************)
(* C15: payload lengths.  The block about to be read is compared with the  *)
(* block of the same kind that binary::to_vec wrote for the font.          *)
(***************************************************************************)
ProperPrefix(a, b) == Len(a) < Len(b) /\ a = take(b, Len(a))

HonestFrames == Frames(drop(binary_to_vec(src_font[1]).val[1], Magic_PACK_LEN))

HasHonest(id) == \E k \in 1..Len(HonestFrames) : HonestFrames[k].id = id

Honest(id) ==
    HonestFrames[CHOOSE k \in 1..Len(HonestFrames) : HonestFrames[k].id = id].payload

NextPayload == SubSeq(binb.src, Block_PACK_LEN + 1,
                      Block_PACK_LEN + DeclaredLen(binb.src))

\* A well-framed block of a known kind is next.
PayloadStep ==
    /\ pc = "bin_loading"
    /\ binb.src # <<>>
    /\ ~ShortBlock(binb.src)
    /\ binb.src[1] \in BlockIds
    /\ HasHonest(binb.src[1])

\* The payload is shorter than the fixed layout of its kind.
TooShort(id, payload) ==
    CASE id = INFO -> Len(payload) < Info_PACK_DYN_MIN
      [] id = COMMON -> Len(payload) < Common_PACK_LEN
      [] id \in {CHARS, KERNING_PAIRS} -> ProperPrefix(payload, Honest(id))
      [] OTHER -> FALSE

RecordLen(id) == IF id = CHARS THEN Char_PACK_LEN ELSE Kerning_PACK_LEN

MissingNul == Err(ErrorParse("CString: missing NUL"))

BlockIdsOf(bytes) ==
    [k \in 1..Len(Frames(drop(bytes, Magic_PACK_LEN))) |->
        Frames(drop(bytes, Magic_PACK_LEN))[k].id]

HasKerningBlock(bytes) ==
    \E k \in 1..Len(BlockIdsOf(bytes)) : BlockIdsOf(bytes)[k] = KERNING_PAIRS

\* C16: binary::to_vec writes Info, Common, Pages, Chars in that order and
\* then a KerningPairs block exactly when the font has a kerning; a file
\* without a KerningPairs block that loads gives a font with no kernings.
C16_BlockOrder ==
    /\ (pc = "bin_stored" /\ src_font[1].kernings = <<>>)
          => BlockIdsOf(encoded) = <<INFO, COMMON, PAGES, CHARS>>
    /\ (pc = "bin_stored" /\ src_font[1].kernings # <<>>)
          => BlockIdsOf(encoded) = <<INFO, COMMON, PAGES, CHARS, KERNING_PAIRS>>
    /\ (pc = "bin_done" /\ "binary::from_bytes" \in call.succeeded
          /\ ~HasKerningBlock(encoded))
          => bret.val[1].kernings = <<>>

\* A font with one page, no chars and no kernings was written without a
\* KerningPairs block and read back as it was.
C16_Witness ==
    /\ pc = "bin_done"
    /\ "binary::from_bytes" \in call.succeeded
    /\ Len(src_font[1].pages) = 1
    /\ src_font[1].chars = <<>>
    /\ src_font[1].kernings = <<>>
    /\ BlockIdsOf(encoded) = <<INFO, COMMON, PAGES, CHARS>>
    /\ bret.val[1] = src_font[1]

(***************************************************************************)
(* C17: the char record of the Chars block.                                *)
(***************************************************************************)
CharsPayload == Frames(drop(encoded, Magic_PACK_LEN))[4].payload

\* The fields of the char record that starts at byte offset off.
CharAt(src, off) ==
    [id |-> unpack_u32(src, off),
     x |-> unpack_u16(src, off + 4),
     y |-> unpack_u16(src, off + 6),
     width |-> unpack_u16(src, off + 8),
     height |-> unpack_u16(src, off + 10),
     xoffset |-> unpack_i16(src, off + 12),
     yoffset |-> unpack_i16(src, off + 14),
     xadvance |-> unpack_i16(src, off + 16),
     page |-> unpack_u8(src, off + 18),
     chnl |-> unpack_u8(src, off + 19)]

\* C17 as stated: a Chars block holding n chars has a payload of exactly
\* 16*n bytes.
C17_CharRecord16 ==
    pc = "bin_stored" => Len(CharsPayload) = 16 * Len(src_font[1].chars)

\* C17 amended: each char is a fixed 20-byte record id:u32, x:u16, y:u16,
\* width:u16, height:u16, xoffset:i16, yoffset:i16, xadvance:i16, page:u8,
\* chnl:u8, so a Chars block holding n chars has a payload of 20*n bytes.
C17_CharRecord20 ==
    pc = "bin_stored" =>
        /\ Len(CharsPayload) = 20 * Len(src_font[1].chars)
        /\ \A i \in 1..Len(src_font[1].chars) :
              CharAt(CharsPayload, 20 * (i - 1)) = src_font[1].chars[i]

\* A font with a char whose fields are all different from zero was written.
C17_Witness ==
    /\ pc = "bin_stored"
    /\ Len(src_font[1].chars) >= 1
    /\ src_font[1].chars[1].x = 281
    /\ src_font[1].chars[1].xoffset = 2
    /\ Len(CharsPayload) = 20 * Len(src_font[1].chars)

(***************************************************************************)
(* SpecEncoding: the steps of SpecCodec on fonts of every unicode/charset  *)
(* pairing, with one more way to get a binary file: a writer that does not *)
(* check the font (StoreAssist with strict = false).                       *)
(***************************************************************************)
EncodingCharsets ==
    {CharsetNull, CharsetTagged(0), CharsetTagged(129), CharsetUndefined(<<120>>)}

EncodingFonts ==
    {Font_new(InfoRec(<<97>>, charset, unicode, p), CommonRec(1, p), <<<<97>>>>,
              CharSeq(1, p), KerningSeq(1, p)) :
       charset \in EncodingCharsets, unicode \in BOOLEAN, p \in Profiles}

\* StoreAssist::v3(font, strict) and the steps of to_vec.
StoreAssist_v3(font, strict) ==
    AndThen(StoreAssist_init(<<>>, 3), LAMBDA d0 :
    AndThen(StoreAssist_info(d0, font, strict), LAMBDA d1 :
    AndThen(StoreAssist_common(d1, font), LAMBDA d2 :
    AndThen(StoreAssist_pages(d2, font, strict), LAMBDA d3 :
    AndThen(StoreAssist_chars(d3, font), LAMBDA d4 :
    StoreAssist_kerning_pairs(d4, font))))))

InitEncoding ==
    /\ settings \in SettingsVals
    /\ src_font \in {Some(font) : font \in EncodingFonts}
    /\ builder = FontBuilder_new(settings)
    /\ ret = OkUnit
    /\ call = [op |-> "start", arg |-> "none", succeeded |-> {}, accepted |-> <<>>]
    /\ binb = NoBinary
    /\ bret = OkUnit
    /\ encoded = <<>>
    /\ ta = NoTokens
    /\ pc = "start"

BinForge ==
    /\ pc = "start"
    /\ encoded' = StoreAssist_v3(src_font[1], FALSE).val[1]
    /\ pc' = "bin_stored"
    /\ Stage("forge", "forged", OkUnit)
    /\ UNCHANGED <<settings, builder, ret, binb, bret, src_font, ta>>

NextEncoding ==
    \/ BinStore
    \/ BinForge
    \/ BinOpen
    \/ BinNext
    \/ BinBuild
    \/ TextStore
    \/ TextOpen
    \/ TextNext
    \/ TextBuild

SpecEncoding == InitEncoding /\ [][NextEncoding]_vars

\* unicode is set and the charset is not Null.
Forbidden(info) == info.unicode /\ info.charset # CharsetNull

\* C18: binary::to_vec fails with InvalidCharsetEncoding and leaves no bytes
\* exactly when info.unicode is set and info.charset is not Null; no other
\* step raises that error: text::to_vec writes such a font, the text loader
\* reads it back with unicode set and a charset other than Null, and the
\* binary loader reads a file holding such an Info.
C18_EncodingCheck ==
    /\ call.op = "binary::to_vec" =>
          IF Forbidden(src_font[1].info)
          THEN bret.err.kind = "InvalidCharsetEncoding" /\ encoded = <<>>
          ELSE is_ok(bret)
    /\ ret.err.kind # "InvalidCharsetEncoding"
    /\ bret.err.kind = "InvalidCharsetEncoding" =>
          call.succeeded \cap {"binary::to_vec", "binary::open", "binary::from_bytes"} = {}
    /\ (call.op = "text::to_vec" /\ Forbidden(src_font[1].info)) => is_ok(ret)
    /\ (pc = "done" /\ Forbidden(src_font[1].info)) =>
          /\ "text::from_bytes" \in call.succeeded
          /\ Forbidden(ret.val[1].info)
    /\ (pc = "bin_done" /\ call.arg = "forged") =>
          /\ "binary::from_bytes" \in call.succeeded
          /\ bret.val[1].info.unicode = src_font[1].info.unicode
          /\ src_font[1].info.charset.tag = "Tagged" =>
                bret.val[1].info.charset.u = src_font[1].info.charset.u

\* binary::to_vec refused a unicode font of charset Tagged(129), text::to_vec
\* wrote it and the text loader read it back as it was.
C18_Witness ==
    /\ pc = "done"
    /\ src_font[1].info.unicode
    /\ src_font[1].info.charset = CharsetTagged(129)
    /\ bret.err.kind = "InvalidCharsetEncoding"
    /\ "text::from_bytes" \in call.succeeded
    /\ ret.val[1].info.unicode
    /\ ret.val[1].info.charset = CharsetTagged(129)

(***************************************************************************)
(* SpecCharset: a Charset::Tagged(u) is rendered with Display and the      *)
(* string is parsed back with From<&str>.  src_font holds the charset,     *)
(* encoded the string and ret the parsed charset.                          *)
(***************************************************************************)
U8_MAX == 255

InitCharset ==
    /\ settings = LoadSettings_default
    /\ src_font \in {Some(CharsetTagged(u)) : u \in 0..U8_MAX}
    /\ builder = FontBuilder_new(settings)
    /\ ret = OkUnit
    /\ call = [op |-> "start", arg |-> "none", succeeded |-> {}, accepted |-> <<>>]
    /\ binb = NoBinary
    /\ bret = OkUnit
    /\ encoded = <<>>
    /\ ta = NoTokens
    /\ pc = "charset"

CharsetRender ==
    /\ pc = "charset"
    /\ encoded' = Charset_to_string(src_font[1])
    /\ pc' = "charset_rendered"
    /\ Stage("Charset::to_string", call.arg, OkUnit)
    /\ UNCHANGED <<settings, builder, ret, binb, bret, src_font, ta>>

CharsetParse ==
    /\ pc = "charset_rendered"
    /\ ret' = Ok(Charset_from(encoded))
    /\ pc' = "charset_parsed"
    /\ Stage("Charset::from", call.arg, OkUnit)
    /\ UNCHANGED <<settings, builder, binb, bret, src_font, encoded, ta>>

NextCharset ==
    \/ CharsetRender
    \/ CharsetParse

SpecCharset == InitCharset /\ [][NextCharset]_vars

\* C19: for every u in 0..=255, parsing the string Charset::Tagged(u) renders
\* to gives Charset::Tagged(u) back, whether the string is a name or a
\* decimal number.
C19_CharsetRoundTrip ==
    pc = "charset_parsed" => ret.val[1] = src_font[1]

\* Tagged(129) was rendered as HANGUL and parsed back.
C19_Witness ==
    /\ pc = "charset_parsed"
    /\ src_font[1] = CharsetTagged(129)
    /\ encoded = Lit_HANGUL
    /\ ret.val[1] = CharsetTagged(129)

\* Tagged(131) was rendered as the decimal number 131 and parsed back.
CharsetDecimalCase ==
    /\ pc = "charset_parsed"
    /\ src_font[1] = CharsetTagged(131)
    /\ encoded = <<ZERO + 1, ZERO + 3, ZERO + 1>>
    /\ ret.val[1] = CharsetTagged(131)

(***************************************************************************)
(* SpecText: text::to_vec writes a font, one attribute of one line is then *)
(* written a second time at the end of its line, or the file is left as it *)
(* is, and text::from_bytes_ext reads it, one line per step.               *)
(***************************************************************************)
TextFonts ==
    {Font_new(InfoRec(<<97>>, CharsetTagged(0), FALSE, 1), CommonRec(1, 1),
              <<<<97>>>>, CharSeq(1, 1), KerningSeq(1, 1))}

\* The pieces of bytes between the separators.
FirstIndex(bytes, sep) ==
    IF \E i \in 1..Len(bytes) : bytes[i] = sep
    THEN CHOOSE i \in 1..Len(bytes) :
           bytes[i] = sep /\ \A j \in 1..(i - 1) : bytes[j] # sep
    ELSE 0

RECURSIVE SplitOn(_, _)
SplitOn(bytes, sep) ==
    IF FirstIndex(bytes, sep) = 0 THEN <<bytes>>
    ELSE <<take(bytes, FirstIndex(bytes, sep) - 1)>>
         \o SplitOn(drop(bytes, FirstIndex(bytes, sep)), sep)

RECURSIVE Join(_, _)
Join(pieces, sep) ==
    IF Len(pieces) = 1 THEN pieces[1]
    ELSE pieces[1] \o sep \o Join(Tail(pieces), sep)

\* The lines of a file, a CR before the LF left out, and their attributes.
StripCR(lines) ==
    [k \in 1..Len(lines) |-> SelectSeq(lines[k], LAMBDA c : c # CR)]

FileLines(bytes) == StripCR(SplitOn(bytes, LF))

LineAttributes(line) ==
    SelectSeq(Tail(SplitOn(line, SP)), LAMBDA a : a # <<>>)

KeyOf(attribute) == Head(SplitOn(attribute, EQ))

\* The keys a line holds twice, each with the number of the line.
DuplicatesOn(k, attrs) ==
    {<<k, KeyOf(attrs[i])>> :
        i \in {m \in 1..Len(attrs) :
                 \E j \in (m + 1)..Len(attrs) : KeyOf(attrs[m]) = KeyOf(attrs[j])}}

DuplicatesIn(lines) ==
    UNION {DuplicatesOn(k, LineAttributes(lines[k])) : k \in 1..Len(lines)}

DuplicateKeys(bytes) == DuplicatesIn(FileLines(bytes))

\* What is written a second time: an attribute as it is, or its key with a
\* value that cannot be parsed.
Repeats(attrs) ==
    {attrs[i] : i \in 1..Len(attrs)}
    \cup {KeyOf(attrs[i]) \o <<EQ, 63>> : i \in 1..Len(attrs)}

LineEnds == {<<LF>>, <<CR, LF>>}

\* The files with one attribute repeated at the end of its line, under
\* either line end, with or without an empty line on top.
RepeatedIn(lines) ==
    UNION {{Join(top \o [lines EXCEPT ![k] = @ \o <<SP>> \o extra], eol) :
              extra \in Repeats(LineAttributes(lines[k])),
              eol \in LineEnds, top \in {<<>>, <<<<>>>>}} :
           k \in 1..Len(lines)}

Repeated(bytes) == RepeatedIn(FileLines(bytes))

InitText ==
    /\ settings \in SettingsVals
    /\ src_font \in {Some(font) : font \in TextFonts}
    /\ builder = FontBuilder_new(settings)
    /\ ret = OkUnit
    /\ call = [op |-> "start", arg |-> "none", succeeded |-> {}, accepted |-> <<>>]
    /\ binb = NoBinary
    /\ bret = OkUnit
    /\ encoded = <<>>
    /\ ta = NoTokens
    /\ pc = "bin_done"

TextRepeat ==
    /\ pc = "text_stored"
    /\ call.arg = "text::to_vec"
    /\ encoded' \in Repeated(encoded)
    /\ call' = [call EXCEPT !.op = "repeat", !.arg = "repeated"]
    /\ UNCHANGED <<settings, builder, ret, binb, bret, src_font, ta, pc>>

NextText ==
    \/ TextStore
    \/ TextRepeat
    \/ TextOpen
    \/ TextNext
    \/ TextBuild

SpecText == InitText /\ [][NextText]_vars

\* C20: a file with a key twice on the line of a tag fails to load with
\* DuplicateKey, which names the key and carries the number of the line,
\* counted from 1; a file with no key twice on a line never fails with
\* DuplicateKey.
C20_DuplicateKey ==
    /\ ret.err.kind = "DuplicateKey" =>
          <<ret.err.line[1], ret.err.entity>> \in DuplicateKeys(encoded)
    /\ (pc = "done" /\ DuplicateKeys(encoded) # {}) =>
          /\ ret.err.kind = "DuplicateKey"
          /\ ret.err.line # None
    /\ (pc = "done" /\ DuplicateKeys(encoded) = {}) =>
          "text::from_bytes" \in call.succeeded

\* The key id of the char line, line 6 under an empty line on top, was
\* repeated and the load failed with DuplicateKey for id on line 6.
C20_Witness ==
    /\ pc = "done"
    /\ call.arg = "repeated"
    /\ DuplicateKeys(encoded) = {<<6, Lit_id>>}
    /\ ret.err.kind = "DuplicateKey"
    /\ ret.err.entity = Lit_id
    /\ ret.err.line = Some(6)

(***************************************************************************)
(* SpecTags: text::to_vec writes a font, a line with a tag the format does *)
(* not have is put into the file, or the file is left as it is, and        *)
(* text::from_bytes_ext reads it under the default settings or under       *)
(* ignore_invalid_tags.                                                    *)
(***************************************************************************)
TagSettings ==
    {s \in LoadSettings : ~s.allow_string_control_characters /\ ~s.ignore_counts}

KnownTags ==
    {Lit_info, Lit_common, Lit_page, Lit_chars, Lit_char, Lit_kernings, Lit_kerning}

\* Lines with a tag the format does not have: foo, foo a=1, infos face="a".
ForeignLines ==
    {<<102, 111, 111>>,
     <<102, 111, 111, SP, 97, EQ, 49>>,
     Lit_info \o <<115, SP>> \o Lit_face \o <<EQ, QT, 97, QT>>}

InsertAt(lines, k, line) ==
    SubSeq(lines, 1, k - 1) \o <<line>> \o SubSeq(lines, k, Len(lines))

WithForeignLine(lines) ==
    {Join(InsertAt(lines, k, line), eol) :
        k \in 1..Len(lines), line \in ForeignLines, eol \in LineEnds}

TagOf(line) == Head(SplitOn(line, SP))

\* The tags of a file that the format does not have, each with its line.
ForeignTagsIn(lines) ==
    {<<k, TagOf(lines[k])>> :
        k \in {n \in 1..Len(lines) : lines[n] # <<>> /\ TagOf(lines[n]) \notin KnownTags}}

ForeignTags(bytes) == ForeignTagsIn(FileLines(bytes))

InitTags ==
    /\ settings \in TagSettings
    /\ src_font \in {Some(font) : font \in TextFonts}
    /\ builder = FontBuilder_new(settings)
    /\ ret = OkUnit
    /\ call = [op |-> "start", arg |-> "none", succeeded |-> {}, accepted |-> <<>>]
    /\ binb = NoBinary
    /\ bret = OkUnit
    /\ encoded = <<>>
    /\ ta = NoTokens
    /\ pc = "bin_done"

TextForeign ==
    /\ pc = "text_stored"
    /\ call.arg = "text::to_vec"
    /\ encoded' \in WithForeignLine(FileLines(encoded))
    /\ call' = [call EXCEPT !.op = "foreign", !.arg = "foreign"]
    /\ UNCHANGED <<settings, builder, ret, binb, bret, src_font, ta, pc>>

NextTags ==
    \/ TextStore
    \/ TextForeign
    \/ TextOpen
    \/ TextNext
    \/ TextBuild

SpecTags == InitTags /\ [][NextTags]_vars

\* C21: under the default settings a tag the format does not have fails the
\* load with InvalidTag, which carries the tag and its line; under
\* ignore_invalid_tags the line is passed over and the font is loaded as if
\* the line were not there.
C21_InvalidTag ==
    /\ (pc = "done" /\ ForeignTags(encoded) # {} /\ ~settings.ignore_invalid_tags) =>
          /\ ret.err.kind = "InvalidTag"
          /\ <<ret.err.line[1], ret.err.entity>> \in ForeignTags(encoded)
    /\ (pc = "done" /\ ForeignTags(encoded) # {} /\ settings.ignore_invalid_tags) =>
          /\ "text::from_bytes" \in call.succeeded
          /\ ret.val[1] = src_font[1]

\* What the loader does: a tag the format does not have fails the load with
\* InvalidTag whatever the settings, and a file without one loads the font.
InvalidTagAlwaysFatal ==
    /\ (pc = "done" /\ ForeignTags(encoded) # {}) =>
          /\ ret.err.kind = "InvalidTag"
          /\ <<ret.err.line[1], ret.err.entity>> \in ForeignTags(encoded)
    /\ (pc = "done" /\ ForeignTags(encoded) = {}) =>
          /\ "text::from_bytes" \in call.succeeded
          /\ ret.val[1] = src_font[1]

(***************************************************************************)
(* C22 and C23: the strings of binary::to_vec, checked under SpecCodec.    *)
(***************************************************************************)
HasNul(font) == \E s \in StringsOf(font) : \E i \in 1..Len(s) : s[i] = NUL

\* C22: binary::to_vec of a font whose face or one of whose page names
\* holds a NUL byte fails with UnsupportedValueEncoding and leaves no bytes.
C22_NulString ==
    (call.op = "binary::to_vec" /\ HasNul(src_font[1])) =>
        /\ bret.err.kind = "UnsupportedValueEncoding"
        /\ encoded = <<>>

\* What binary::to_vec does: such a font is refused and no bytes are left,
\* by the NUL check of c_string unless the charset check or the page name
\* length check has refused it before.
NulStringRefused ==
    (call.op = "binary::to_vec" /\ HasNul(src_font[1])) =>
        /\ encoded = <<>>
        /\ bret \in {Err(ErrorParse("CString: contains NUL")),
                     Err(Error("InvalidCharsetEncoding")),
                     Err(ErrorAt("IncongruentPageNameLen", "", None))}

MaxInput == 4

Alphabet == {97, SP, EQ, QT, CR, LF}

\* Lines of the format, well formed and not, and what ends a line.
LinePieces ==
    {<<>>, <<SP>>, <<97>>, <<SP, 97, TB>>,
     <<97, SP, 98, EQ, 49>>,
     <<97, SP, 98, EQ, 49, SP, 99, EQ, QT, 50, SP, TB, 51, QT>>,
     <<97, SP, 98, SP, EQ, SP, 49, SP>>,
     <<97, SP, 98, EQ, QT, 49>>,
     <<97, SP, 98, EQ>>,
     <<97, SP, 98>>,
     <<97, EQ, 98, SP, 99, EQ, 49>>,
     <<97, EQ, 97, SP, EQ, 97, EQ, 49>>}

PieceEnds == {<<LF>>, <<CR, LF>>, <<CR>>}

TokenInputs ==
    UNION {[1..n -> Alphabet] : n \in 0..MaxInput}
    \cup {a \o e \o b : a \in LinePieces, e \in PieceEnds, b \in LinePieces}
    \cup {a \o e \o b \o f : a \in LinePieces, e \in PieceEnds, b \in LinePieces,
                            f \in PieceEnds}

InitTokens ==
    /\ settings = LoadSettings_default
    /\ src_font = None
    /\ builder = FontBuilder_new(settings)
    /\ ret = OkUnit
    /\ call = [op |-> "start", arg |-> "none", succeeded |-> {}, accepted |-> <<>>]
    /\ binb = NoBinary
    /\ bret = OkUnit
    /\ encoded \in TokenInputs
    /\ ta = TaggedAttributes_from_bytes(encoded)
    /\ pc = "tag"

Logged(op, o) ==
    call' = [call EXCEPT !.op = op,
                         !.accepted = Append(@, [op |-> op, from |-> ta.index,
                                                 line |-> ta.line, t |-> o.t,
                                                 r |-> o.r])]

\* load_bytes: while let Some(tag) = attributes.next_tag()?
TokTag ==
    /\ pc = "tag"
    /\ \E o \in {next_tag(ta)} :
         /\ ta' = o.t
         /\ ret' = o.r
         /\ pc' = IF is_err(o.r) THEN "failed"
                  ELSE IF is_none(o.r.val[1]) THEN "ended" ELSE "attributes"
         /\ Logged("next_tag", o)
    /\ UNCHANGED <<settings, builder, binb, bret, src_font, encoded>>

\* load(): while let Some(attribute) = attributes.next_attribute()?
TokAttribute ==
    /\ pc = "attributes"
    /\ \E o \in {next_attribute(ta)} :
         /\ ta' = o.t
         /\ ret' = o.r
         /\ pc' = IF is_err(o.r) THEN "failed"
                  ELSE IF is_none(o.r.val[1]) THEN "tag" ELSE "attributes"
         /\ Logged("next_attribute", o)
    /\ UNCHANGED <<settings, builder, binb, bret, src_font, encoded>>

NextTokens ==
    \/ TokTag
    \/ TokAttribute

SpecTokens == InitTokens /\ [][NextTokens]_vars

(***************************************************************************)
(* Properties of the tokenizer, checked under SpecTokens.                  *)
(***************************************************************************)
\* The last call, and the last next_tag() call.
LastCall == call.accepted[Len(call.accepted)]

LastTagCall ==
    call.accepted[CHOOSE k \in 1..Len(call.accepted) :
                     /\ call.accepted[k].op = "next_tag"
                     /\ \A j \in (k + 1)..Len(call.accepted) :
                           call.accepted[j].op # "next_tag"]

Returned(e) == is_ok(e.r) /\ is_some(e.r.val[1])

ReturnedNone(e) == is_ok(e.r) /\ is_none(e.r.val[1])

Token(e) == e.r.val[1][1]

Blank == {SP, TB}

\* The position, counted from 1, of the first byte at or after index from
\* that is neither blank nor part of a line end; 0 when there is none.
TokenHead(bytes, from) ==
    IF \E p \in (from + 1)..Len(bytes) : bytes[p] \notin Blank \cup {CR, LF}
    THEN CHOOSE p \in (from + 1)..Len(bytes) :
           /\ bytes[p] \notin Blank \cup {CR, LF}
           /\ \A q \in (from + 1)..(p - 1) : bytes[q] \in Blank \cup {CR, LF}
    ELSE 0

\* The line ends, LF or CRLF, before position p.
LineEndsBefore(bytes, p) == Cardinality({i \in 1..(p - 1) : bytes[i] = LF})

\* C24: the line starts at 1; a tag that next_tag() returns carries 1 plus
\* the number of line ends before it; next_attribute() leaves the line as it
\* was, and its attribute or its error carries the line of the tag.
C24_LineTracking ==
    /\ call.accepted = <<>> => ta.line = 1
    /\ (call.accepted # <<>> /\ LastCall.op = "next_tag" /\ Returned(LastCall)) =>
          /\ Token(LastCall).line
                = Some(1 + LineEndsBefore(encoded, TokenHead(encoded, LastCall.from)))
          /\ ta.line = Token(LastCall).line[1]
    /\ (call.accepted # <<>> /\ LastCall.op = "next_attribute") =>
          /\ ta.line = LastCall.line
          /\ ta.line = Token(LastTagCall).line[1]
          /\ Returned(LastCall) => Token(LastCall).line = Token(LastTagCall).line
          /\ is_err(LastCall.r) => LastCall.r.err.line = Token(LastTagCall).line

\* After a CRLF and an LF the tag on line 3 was returned, and then the end
\* of its line.
C24_Witness ==
    /\ encoded = <<CR, LF, LF, 97>>
    /\ Len(call.accepted) = 2
    /\ Token(call.accepted[1]).line = Some(3)
    /\ LastCall.op = "next_attribute"
    /\ ta.line = 3

\* The positions, counted from 1, of a CR that no LF follows.
LoneCRs(bytes) ==
    {p \in 1..Len(bytes) : bytes[p] = CR /\ (p = Len(bytes) \/ bytes[p + 1] # LF)}

\* C25: an input with a CR that no LF follows is never read to its end: as
\* long as no call has failed the tokenizer has not passed that CR, and
\* next_tag() never returns None for the end of such an input.
C25_LoneCR ==
    /\ pc # "failed" => \A p \in LoneCRs(encoded) : ta.index < p
    /\ pc = "ended" => LoneCRs(encoded) = {}

\* The input LF CR (tests::tagged_attributes_next_tag_err): next_tag() failed
\* with a bad new line at the CR.
C25_Witness ==
    /\ encoded = <<LF, CR>>
    /\ pc = "failed"
    /\ LastCall.op = "next_tag"
    /\ ret.err.kind = "Parse"
    /\ ret.err.detail = "BadCRLF"
    /\ ret.err.line = Some(2)

\* The bytes of the input at positions head .. head + Len(run) - 1 are run,
\* no byte of run is in stop, and the run cannot be made longer either way.
MaximalRun(bytes, head, run, stop) ==
    /\ run # <<>>
    /\ head >= 1
    /\ head + Len(run) - 1 <= Len(bytes)
    /\ run = SubSeq(bytes, head, head + Len(run) - 1)
    /\ \A i \in 1..Len(run) : run[i] \notin stop
    /\ head = 1 \/ bytes[head - 1] \in stop
    /\ head + Len(run) > Len(bytes) \/ bytes[head + Len(run)] \in stop

\* The key run starts at head, has no blank and no line end, has no '='
\* after its first byte, and ends before a blank or '='.
KeyRun(bytes, head, run) ==
    /\ run # <<>>
    /\ head >= 1
    /\ head + Len(run) <= Len(bytes)
    /\ run = SubSeq(bytes, head, head + Len(run) - 1)
    /\ \A i \in 1..Len(run) : run[i] \notin Blank \cup {CR, LF}
    /\ \A i \in 2..Len(run) : run[i] # EQ
    /\ bytes[head + Len(run)] \in Blank \cup {EQ}

\* C26 as stated: every tag and every key returned is a maximal run of bytes
\* with no space, no tab, no CR, no LF and no '='.
C26_TokenRuns ==
    (call.accepted # <<>> /\ Returned(LastCall)) =>
        MaximalRun(encoded, TokenHead(encoded, LastCall.from),
                   IF LastCall.op = "next_tag" THEN Token(LastCall).tag
                   ELSE Token(LastCall).key,
                   Blank \cup {CR, LF, EQ})

\* C26 amended: every tag returned is a maximal run of bytes with no space,
\* no tab, no CR and no LF, and may hold '='; every key returned starts at
\* the first byte after the blanks that is not a blank, holds no space, tab,
\* CR or LF, holds '=' at most as its first byte, and ends before the first
\* blank or '=' after its first byte.
C26_TagAndKeyRuns ==
    (call.accepted # <<>> /\ Returned(LastCall)) =>
        IF LastCall.op = "next_tag"
        THEN MaximalRun(encoded, TokenHead(encoded, LastCall.from),
                        Token(LastCall).tag, Blank \cup {CR, LF})
        ELSE KeyRun(encoded, TokenHead(encoded, LastCall.from), Token(LastCall).key)

\* The key =a was returned (tests::eq_key_eq_qt_value_qt) after the tag a=a.
C26_Witness ==
    /\ call.accepted # <<>>
    /\ LastCall.op = "next_attribute"
    /\ Returned(LastCall)
    /\ Token(LastCall).key = <<EQ, 97>>
    /\ Token(LastTagCall).tag = <<97, EQ, 97>>

\* The first position after from whose byte is in set, or is not in set;
\* 0 when there is none.
First(bytes, from, set) ==
    IF \E p \in (from + 1)..Len(bytes) : bytes[p] \in set
    THEN CHOOSE p \in (from + 1)..Len(bytes) :
           bytes[p] \in set /\ \A q \in (from + 1)..(p - 1) : bytes[q] \notin set
    ELSE 0

FirstNot(bytes, from, set) == First(bytes, from, (0..255) \ set)

\* A key starts after index from: the first byte that is not a blank is
\* there and is not a line end.
KeyHead(bytes, from) == FirstNot(bytes, from, Blank)

HasKey(bytes, from) ==
    KeyHead(bytes, from) # 0 /\ bytes[KeyHead(bytes, from)] \notin {CR, LF}

\* The position of the '=' of the key that starts at head: the first blank,
\* '=' or line end after head, past blanks; 0 when the key has no '='.
EqAfterBlanks(bytes, stop) ==
    IF FirstNot(bytes, stop, Blank) # 0 /\ bytes[FirstNot(bytes, stop, Blank)] = EQ
    THEN FirstNot(bytes, stop, Blank) ELSE 0

EqAtStop(bytes, stop) ==
    IF stop = 0 THEN 0
    ELSE IF bytes[stop] = EQ THEN stop
    ELSE IF bytes[stop] \in {CR, LF} THEN 0
    ELSE EqAfterBlanks(bytes, stop)

EqOfKey(bytes, head) == EqAtStop(bytes, First(bytes, head, Blank \cup {EQ, CR, LF}))

\* The position where the value after the '=' at eq starts; 0 when the line
\* or the input ends first.
ValueAt(bytes, v) == IF v # 0 /\ bytes[v] \notin {CR, LF} THEN v ELSE 0

ValueHead(bytes, eq) == ValueAt(bytes, FirstNot(bytes, eq, Blank))

\* The position of the quote that closes the quote at v; 0 when the line or
\* the input ends first.
QuoteAt(bytes, c) == IF c # 0 /\ bytes[c] = QT THEN c ELSE 0

QuoteEnd(bytes, v) == QuoteAt(bytes, First(bytes, v, {QT, CR, LF}))

\* What the input holds after index from, where a key starts.
NoEq(bytes, from) == HasKey(bytes, from) /\ EqOfKey(bytes, KeyHead(bytes, from)) = 0

NoValue(bytes, from) ==
    /\ HasKey(bytes, from)
    /\ EqOfKey(bytes, KeyHead(bytes, from)) # 0
    /\ ValueHead(bytes, EqOfKey(bytes, KeyHead(bytes, from))) = 0

QuotedValue(bytes, from) ==
    /\ HasKey(bytes, from)
    /\ EqOfKey(bytes, KeyHead(bytes, from)) # 0
    /\ ValueHead(bytes, EqOfKey(bytes, KeyHead(bytes, from))) # 0
    /\ bytes[ValueHead(bytes, EqOfKey(bytes, KeyHead(bytes, from)))] = QT

QuotePair(bytes, from) ==
    <<ValueHead(bytes, EqOfKey(bytes, KeyHead(bytes, from))),
      QuoteEnd(bytes, ValueHead(bytes, EqOfKey(bytes, KeyHead(bytes, from))))>>

\* C27: next_attribute() fails, and returns no pair, when the key has no
\* '=', when nothing follows the '=' before the end of the line or of the
\* input, and when a quoted value is not closed before the end of the line
\* or of the input; a quoted value that is closed is returned without its
\* quotes, every byte between them kept.
C27_AttributeErrors ==
    (call.accepted # <<>> /\ LastCall.op = "next_attribute") =>
        /\ NoEq(encoded, LastCall.from) => is_err(LastCall.r)
        /\ NoValue(encoded, LastCall.from) => is_err(LastCall.r)
        /\ (QuotedValue(encoded, LastCall.from)
              /\ QuotePair(encoded, LastCall.from)[2] = 0) => is_err(LastCall.r)
        /\ (QuotedValue(encoded, LastCall.from)
              /\ QuotePair(encoded, LastCall.from)[2] # 0) =>
              /\ Returned(LastCall)
              /\ Token(LastCall).value
                   = SubSeq(encoded, QuotePair(encoded, LastCall.from)[1] + 1,
                            QuotePair(encoded, LastCall.from)[2] - 1)

\* The quoted value 2, space, tab, 3 was returned with its blanks and
\* without its quotes.
C27_Witness ==
    /\ call.accepted # <<>>
    /\ LastCall.op = "next_attribute"
    /\ QuotedValue(encoded, LastCall.from)
    /\ Returned(LastCall)
    /\ Token(LastCall).value = <<50, SP, TB, 51>>

\* The three failures: no '=', no value, no closing quote.
AttributeFailures ==
    /\ call.accepted # <<>>
    /\ LastCall.op = "next_attribute"
    /\ is_err(LastCall.r)
    /\ \/ NoEq(encoded, LastCall.from)
       \/ NoValue(encoded, LastCall.from)
       \/ QuotedValue(encoded, LastCall.from)

\* The line, counted from 1, of position p of the input.
LineOf(bytes, p) == 1 + LineEndsBefore(bytes, p)

\* The call before the last one.
PreviousCall == call.accepted[Len(call.accepted) - 1]

\* C28: after next_tag() has returned a tag, every pair next_attribute()
\* returns is the next one on the line of the tag; it returns None when only
\* blanks are left on that line, without going past the line end; and the
\* next_tag() that follows returns the first tag after that line, on a later
\* line, or None when only blanks and line ends are left.
C28_LineByLine ==
    /\ (call.accepted # <<>> /\ LastCall.op = "next_attribute" /\ Returned(LastCall)) =>
          /\ TokenHead(encoded, LastCall.from) > LastCall.from
          /\ LineOf(encoded, TokenHead(encoded, LastCall.from))
               = LineOf(encoded, TokenHead(encoded, LastTagCall.from))
          /\ Token(LastCall).key[1] = encoded[TokenHead(encoded, LastCall.from)]
          /\ LineOf(encoded, ta.index)
               = LineOf(encoded, TokenHead(encoded, LastTagCall.from))
    /\ (call.accepted # <<>> /\ LastCall.op = "next_attribute"
          /\ ReturnedNone(LastCall)) =>
          /\ FirstNot(encoded, LastCall.from, Blank) = 0
               \/ encoded[FirstNot(encoded, LastCall.from, Blank)] \in {CR, LF}
          /\ LineOf(encoded, ta.index + 1)
               = LineOf(encoded, TokenHead(encoded, LastTagCall.from))
    /\ (call.accepted # <<>> /\ LastCall.op = "next_attribute"
          /\ HasKey(encoded, LastCall.from)) => ~ReturnedNone(LastCall)
    /\ (Len(call.accepted) > 1 /\ LastCall.op = "next_tag" /\ Returned(LastCall)) =>
          /\ ReturnedNone(PreviousCall)
          /\ Token(LastCall).tag[1] = encoded[TokenHead(encoded, LastCall.from)]
          /\ LineOf(encoded, TokenHead(encoded, LastCall.from))
               > LineOf(encoded, PreviousCall.from + 1)
          /\ Token(LastCall).line[1] > PreviousCall.line
    /\ (call.accepted # <<>> /\ LastCall.op = "next_tag" /\ ReturnedNone(LastCall)) =>
          TokenHead(encoded, LastCall.from) = 0

\* A line with two attributes, then a line end, then another line: the two
\* pairs, None, and the tag of the second line were returned in that order.
C28_Witness ==
    /\ Len(call.accepted) = 5
    /\ Returned(call.accepted[2])
    /\ Token(call.accepted[2]).key = <<98>>
    /\ Returned(call.accepted[3])
    /\ Token(call.accepted[3]).key = <<99>>
    /\ ReturnedNone(call.accepted[4])
    /\ LastCall.op = "next_tag"
    /\ Returned(LastCall)
    /\ Token(LastCall).line = Some(2)


(***************************************************************************)
(* C29: bytes after the last block of a binary file, under SpecBinary.     *)
(***************************************************************************)
\* The file binary::to_vec wrote for the font.
HonestFile == binary_to_vec(src_font[1]).val[1]

\* The file read is the written file followed by bytes.
Trailed == ProperPrefix(HonestFile, encoded)

TrailedRead == BinaryEntered /\ pc = "bin_done" /\ Trailed

\* C29 as stated: a well-formed sequence of blocks followed by further
\* bytes still loads, and gives the font that was written.
C29_TrailingBytes == TrailedRead => bret = Ok(src_font[1])

\* What load() does: the bytes after the last block are read as one more
\* block, so fewer than a block header fails with the buffer underflow and
\* a header with a foreign id fails with InvalidBinaryBlock.
TrailingBytesRefused ==
    TrailedRead =>
        LET t == drop(encoded, Len(HonestFile))
        IN /\ is_err(bret)
           /\ Len(t) < Block_PACK_LEN => bret = underflow
           /\ (Len(t) >= Block_PACK_LEN /\ t[1] \notin BlockIds)
                 => bret = Err(ErrorWith("InvalidBinaryBlock", t[1]))

\* The written file followed by one byte was read and refused after every
\* block of the font had been read.
TrailingBytesRefused_Witness ==
    /\ TrailedRead
    /\ Len(encoded) = Len(HonestFile) + 1
    /\ bret = underflow
    /\ binb.src = <<0>>
    /\ is_some(binb.info) /\ is_some(binb.common) /\ Len(binb.pages) = 1


(***************************************************************************)
(* C30: termination of the tokenizer loop.  load() is sequential code: a   *)
(* call that can be made is made, so the loop is weakly fair.              *)
(***************************************************************************)
\* The longest input of arbitrary bytes.
MaxFairInput == 3

\* One-line and two-line inputs: a lone tag, a tag with an attribute, a
\* tag with a key and no value, a tag with a key and no '=', nothing.
FairPieces == {<<>>, <<97>>, <<97, SP, 98, EQ, 49>>, <<97, SP, 98, EQ>>,
               <<97, SP, 98>>}

FairInputs ==
    UNION {[1..n -> Alphabet] : n \in 0..MaxFairInput}
    \cup {a \o e \o b : a \in FairPieces, e \in PieceEnds, b \in FairPieces}

InitTokensFair ==
    /\ settings = LoadSettings_default
    /\ src_font = None
    /\ builder = FontBuilder_new(settings)
    /\ ret = OkUnit
    /\ call = [op |-> "start", arg |-> "none", succeeded |-> {}, accepted |-> <<>>]
    /\ binb = NoBinary
    /\ bret = OkUnit
    /\ encoded \in FairInputs
    /\ ta = TaggedAttributes_from_bytes(encoded)
    /\ pc = "tag"

SpecTokensFair == InitTokensFair /\ [][NextTokens]_vars /\ WF_vars(NextTokens)

\* The loop has left: next_tag() returned None, or a call returned an error.
LoopEnded == pc \in {"ended", "failed"}

\* The call just made returned a tag or a key/value pair.
ReturnedToken == is_ok(ret') /\ is_some(ret'.val[1])

\* Calls made so far that returned None or a token.
CallsMade == Len(call.accepted)

\* C30: the cursor stays within 0..len of the input and never moves
\* backwards, a next_tag() or next_attribute() call that returns a token
\* moves it forwards, no more than two calls are made per byte of input
\* (and two at the end), and the loop ends: next_tag() returns None or a
\* call returns an error.
C30_Termination ==
    /\ [](ta.index \in 0..Len(encoded))
    /\ [](CallsMade <= 2 * Len(encoded) + 2)
    /\ [][/\ ta'.index >= ta.index
          /\ ReturnedToken => ta'.index > ta.index]_vars
    /\ <>LoopEnded

\* Two lines were read to the end of the input: a tag with an attribute,
\* None at the end of the line, and a tag on the second line.
C30_Witness ==
    /\ pc = "ended"
    /\ ta.index = Len(encoded)
    /\ CallsMade = 6
    /\ Returned(call.accepted[1]) /\ Returned(call.accepted[2])
    /\ ReturnedNone(call.accepted[3]) /\ Returned(call.accepted[4])
    /\ ReturnedNone(call.accepted[5]) /\ ReturnedNone(call.accepted[6])
    /\ call.accepted[6].op = "next_tag"

====
